---- MODULE Spec2Model ----
(***************************************************************************)
(* A model of romi_model/scad.py: the point type P, the Polygon with its   *)
(* tessellation appenders, and the ScadPolygon that flattens a list of     *)
(* Polygon's into one OpenSCAD polygon command.                            *)
(*                                                                         *)
(* Numbers.  A Python float is modelled as an integer count of 1/Scale     *)
(* units (fixed point, 4 decimals), an angle as an integer count of        *)
(* 3-degree steps, and sin/cos as a table of round(sin * Scale).  The      *)
(* inputs of the appenders are drawn from sets on which the divisions the  *)
(* code makes are exact in these units.                                    *)
(*                                                                         *)
(* Text.  An output line is a record holding the pieces the f-string is    *)
(* made of; a number formatted with "{0:.3f}" is the record                *)
(* [neg, milli]: its sign character and its digits read as thousandths.    *)
(***************************************************************************)
EXTENDS Integers, Sequences, FiniteSets, TLC

VARIABLES
    points,      \* points[p]: Polygon p's self.points, a list of P
    names,       \* names[p]: Polygon p's self.name
    polygons,    \* the ScadPolygon's self.polygons, a list of Polygon references
    convexity,   \* the ScadPolygon's self.convexity
    scad_lines,  \* the lines of the latest file_write (<<>> before the first one)
    rendered,    \* history: "never", "clean" (nothing appended since the
                 \* latest file_write) or "dirty"
    repeat,      \* history: "same" or "differs" when the latest file_write came
                 \* after another with nothing appended in between, and its
                 \* lines are or are not those of the one before; else "none"
    late,        \* history: points were appended to a Polygon while it was in
                 \* the ScadPolygon
    last,        \* history: the latest call, its arguments, what it acted on
                 \* as it was before the call, and its outcome
    heap,        \* the P objects by reference 1..Len(heap): heap[r] is the x, y
                 \* and z of object r
    lists,       \* the list objects that hold references to P objects:
                 \* lists[l] is the contents of list l
    self_points, \* self_points[g]: the list object that self.points of the
                 \* Polygon object g refers to ("none" before its __init__)
    seed,        \* history: seed[g] is the references and the coordinates
                 \* Polygon g was constructed with
    own,         \* history: own[g] is the references the appender calls on
                 \* Polygon g appended, in call order
    made,        \* history: made[r] is the call that created object r
    polygon_lists, \* the list objects that hold references to Polygon
                 \* objects: the caller's and the ScadPolygon object's own
    self_polygons, \* the list object that self.polygons of the ScadPolygon
                 \* object refers to ("none" before its __init__)
    kept         \* history: the references the ScadPolygon object was
                 \* constructed with, and the ones its append and extend
                 \* calls added, in call order

\* the Polygon's by value and the ScadPolygon
polygon_vars == <<points, names, polygons, convexity, scad_lines, rendered, repeat,
                  late>>
\* the ScadPolygon object by reference
set_vars == <<polygon_lists, self_polygons, kept>>
\* the objects by reference
object_vars == <<heap, lists, self_points, seed, own, made,
                 polygon_lists, self_polygons, kept>>

vars == <<points, names, polygons, convexity, scad_lines, rendered, repeat, late, last,
          heap, lists, self_points, seed, own, made,
          polygon_lists, self_polygons, kept>>

-----------------------------------------------------------------------------
(* Bounds of the model *)

\* Spec, SpecAccess: no appender call is made that would take the Polygon's
\* beyond this many points in total.
MaxPoints == 5
\* SpecPolygon: the same, for the tessellation appenders.
MaxArcPoints == 6
\* No Polygon is added to a ScadPolygon that already holds this many.
MaxPolygons == 2

\* No P object is created when this many exist.
MaxObjects == 3
\* No appender is called on a Polygon object that already had this many
\* appender calls.
MaxAppends == 1
\* SpecSlot: the most points of the Polygon a slot is appended to
MaxSlotPoints == 8
\* SpecLines: the most points appended to the Polygon's as constructed
MaxLinePoints == 3

\* The Polygon objects: "square" and "hole".
PolygonIds == {1, 2}

\* The Polygon objects that are followed by reference, and the list objects:
\* the list of the default argument of Polygon.__init__, a list of the
\* caller, and the list each Polygon.__init__ creates.
PolygonObjects == {"a", "b"}
ListIds == {"default", "caller"} \cup PolygonObjects

-----------------------------------------------------------------------------
(* Floats, angles and the math functions the code imports *)

\* One unit of a float: 1.0 is Scale.
Scale == 10000
\* n millimeters
Mm(n) == n * Scale
\* The angle pi, in 3-degree steps.
pi == 60

Sign(v) == IF v > 0 THEN 1 ELSE IF v < 0 THEN -1 ELSE 0
Abs(v) == IF v < 0 THEN -v ELSE v

\* n / d rounded to the nearest integer, d > 0.
RoundDiv(n, d) == (2 * n + d) \div (2 * d)

\* The float product a * b of two fixed-point numbers: a * b / Scale rounded
\* to the nearest unit, taken in parts so that no part leaves TLC's integers.
FMul(a, b) ==
    LET ah == a \div Scale
        al == a % Scale
        bh == b \div Scale
        bl == b % Scale
    IN  ah * bh * Scale + ah * bl + al * bh + RoundDiv(al * bl, Scale)

\* The float quotient a / b of two fixed-point numbers, b > 0: a * Scale / b
\* rounded to the nearest unit, taken two decimals at a time.
FDiv(a, b) ==
    LET n == Abs(a)
        q == n \div b
        f1 == ((n % b) * 100) \div b
        r1 == ((n % b) * 100) % b
        f2 == RoundDiv(r1 * 100, b)
        v == q * Scale + f1 * 100 + f2
    IN  IF a < 0 THEN -v ELSE v

\* round(sin(3 * k degrees) * Scale) for k = 0..30
SinQ ==
    << 0, 523, 1045, 1564, 2079, 2588, 3090, 3584, 4067, 4540, 5000, 5446,
       5878, 6293, 6691, 7071, 7431, 7771, 8090, 8387, 8660, 8910, 9135, 9336,
       9511, 9659, 9781, 9877, 9945, 9986, 10000 >>

sin(angle) ==
    LET m == angle % (2 * pi)
    IN  IF m <= 30 THEN SinQ[m + 1]
        ELSE IF m <= 60 THEN SinQ[60 - m + 1]
        ELSE IF m <= 90 THEN -SinQ[m - 60 + 1]
        ELSE -SinQ[120 - m + 1]

cos(angle) == sin(angle + 30)

\* asin(v): the angle in -pi/2..pi/2 whose sine is nearest to v
asin(v) ==
    CHOOSE a \in -30..30 :
        \A b \in -30..30 : Abs(sin(a) - v) <= Abs(sin(b) - v)

\* atan2(y, x), in (-pi, pi]: exact on the directions that are a multiple
\* of 45 degrees (the appender inputs are drawn from these), and on another
\* direction the angle nearest to it, which is the one whose unit vector has
\* the largest product with (x, y).
atan2(y, x) ==
    LET sy == Sign(y)
        sx == Sign(x)
        Along(a) == FMul(x, cos(a)) + FMul(y, sin(a))
    IN  IF sy = 0 THEN (IF sx < 0 THEN pi ELSE 0)
        ELSE IF sx = 0 THEN sy * 30
        ELSE IF Abs(x) = Abs(y) THEN (IF sx > 0 THEN sy * 15 ELSE sy * 45)
        ELSE CHOOSE a \in (1 - pi)..pi :
                 \A b \in (1 - pi)..pi : Along(a) >= Along(b)

-----------------------------------------------------------------------------
(* P *)

P3(x, y, z) == [x |-> x, y |-> y, z |-> z]
\* P(x, y): z takes its default, 0.0
P(x, y) == P3(x, y, 0)

P_add(point1, point2) ==
    P3(point1.x + point2.x, point1.y + point2.y, point1.z + point2.z)

P_sub(point1, point2) ==
    P3(point1.x - point2.x, point1.y - point2.y, point1.z - point2.z)

\* point / scale for a whole number scale
P_truediv(point, scale) ==
    P3(RoundDiv(point.x, scale), RoundDiv(point.y, scale), RoundDiv(point.z, scale))

\* point * scale and scale * point
P_mul(point, scale) ==
    P3(FMul(point.x, scale), FMul(point.y, scale), FMul(point.z, scale))

P_rmul(point, scale) ==
    P3(FMul(point.x, scale), FMul(point.y, scale), FMul(point.z, scale))

RECURSIVE SqrtSearch(_, _, _)
\* the largest r in lo..hi with r * r <= n
SqrtSearch(n, lo, hi) ==
    IF lo >= hi THEN lo
    ELSE LET mid == (lo + hi + 1) \div 2
         IN  IF mid * mid <= n THEN SqrtSearch(n, mid, hi)
             ELSE SqrtSearch(n, lo, mid - 1)

\* sqrt(v), rounded to the nearest unit, for v * Scale within TLC's integers
sqrt_near(v) ==
    LET n == v * Scale
        r == SqrtSearch(n, 0, 46339)
    IN  IF (r + 1) * (r + 1) - n < n - r * r THEN r + 1 ELSE r

\* sqrt(v): for a large v, two Newton steps from the root of v / 10000
sqrt(v) ==
    IF v <= 200000 THEN sqrt_near(v)
    ELSE LET r0 == 100 * sqrt_near(RoundDiv(v, 10000))
             r1 == (r0 + FDiv(v, r0)) \div 2
         IN  RoundDiv(r1 + FDiv(v, r1), 2)

distance(point1, point2) ==
    LET dx == point1.x - point2.x
        dy == point1.y - point2.y
        dz == point1.z - point2.z
    IN  sqrt(FMul(dx, dx) + FMul(dy, dy) + FMul(dz, dz))

\* y_mirror negating x alone
y_mirror_x_only(point) == P3(-point.x, point.y, point.z)

y_mirror(point) == P3(-point.x, point.y, -point.z)

rotate2d(point, angle) ==
    LET x == point.x
        y == point.y
        sin_angle == sin(angle)
        cos_angle == cos(angle)
    IN  P3(FMul(x, cos_angle) - FMul(y, sin_angle),
           FMul(y, cos_angle) + FMul(x, sin_angle), 0)

\* "{0:.3f}".format(v): the sign character and the digits, as thousandths
Format3(v) ==
    LET unit == Scale \div 1000
        a == Abs(v)
        q == a \div unit
        r == a % unit
        up == (2 * r > unit) \/ (2 * r = unit /\ q % 2 = 1)
    IN  [neg |-> v < 0, milli |-> IF up THEN q + 1 ELSE q]

\* NormalizeZero leaving the text as formatted
NormalizeZero_kept(text) == text

\* x_text = "0.000" if x_text == "-0.000" else x_text
NormalizeZero(text) ==
    IF text = [neg |-> TRUE, milli |-> 0] THEN [neg |-> FALSE, milli |-> 0] ELSE text

\* str(point): the three texts of f"P({x_text}, {y_text}, {z_text})"
P_str(point) ==
    [x_text |-> NormalizeZero(Format3(point.x)),
     y_text |-> NormalizeZero(Format3(point.y)),
     z_text |-> NormalizeZero(Format3(point.z))]

-----------------------------------------------------------------------------
(* Polygon: the appenders, as functions of the points list.  Each yields   *)
(* [raised, points]: whether the call raised, and self.points after it.    *)

\* a / n for an angle a and a whole number n /= 0
AngleDiv(a, n) == IF n > 0 THEN a \div n ELSE -(a \div (-n))

\* arc_append_to appending one point more: for index in range(points_count + 1)
arc_append_to_extra_point(pts, center, radius, start_angle, end_angle, points_count) ==
    LET span_angle == end_angle - start_angle
    IN  IF points_count - 1 = 0
        THEN [raised |-> TRUE, points |-> pts]   \* ZeroDivisionError
        ELSE LET delta_angle == AngleDiv(span_angle, points_count - 1)
                 center_x == center.x
                 center_y == center.y
                 appended ==
                     [i \in 1..(points_count + 1) |->
                         LET index == i - 1
                             angle == start_angle + index * delta_angle
                         IN  P(center_x + FMul(radius, cos(angle)),
                               center_y + FMul(radius, sin(angle)))]
             IN  [raised |-> FALSE, points |-> pts \o appended]

\* arc_append_to dividing the span into points_count steps
arc_append_to_count_steps(pts, center, radius, start_angle, end_angle, points_count) ==
    LET span_angle == end_angle - start_angle
    IN  IF points_count - 1 = 0
        THEN [raised |-> TRUE, points |-> pts]   \* ZeroDivisionError
        ELSE LET delta_angle == AngleDiv(span_angle, points_count)
                 center_x == center.x
                 center_y == center.y
                 \* for index in range(points_count): points.append(P(x, y))
                 appended ==
                     [i \in 1..points_count |->
                         LET index == i - 1
                             angle == start_angle + index * delta_angle
                         IN  P(center_x + FMul(radius, cos(angle)),
                               center_y + FMul(radius, sin(angle)))]
             IN  [raised |-> FALSE, points |-> pts \o appended]


arc_append_to(pts, center, radius, start_angle, end_angle, points_count) ==
    LET span_angle == end_angle - start_angle
    IN  IF points_count - 1 = 0
        THEN [raised |-> TRUE, points |-> pts]   \* ZeroDivisionError
        ELSE LET delta_angle == AngleDiv(span_angle, points_count - 1)
                 center_x == center.x
                 center_y == center.y
                 \* for index in range(points_count): points.append(P(x, y))
                 appended ==
                     [i \in 1..points_count |->
                         LET index == i - 1
                             angle == start_angle + index * delta_angle
                         IN  P(center_x + FMul(radius, cos(angle)),
                               center_y + FMul(radius, sin(angle)))]
             IN  [raised |-> FALSE, points |-> pts \o appended]

\* circle_append_to closing the circle with a repeat of its first point
circle_append_to_closed(pts, center, diameter, points_count) ==
    IF points_count = 0
    THEN [raised |-> TRUE, points |-> pts]   \* ZeroDivisionError
    ELSE LET delta_angle == AngleDiv(2 * pi, points_count)
             radius == RoundDiv(diameter, 2)
             center_x == center.x
             center_y == center.y
             \* for index in range(points_count): points.append(point)
             appended ==
                 [i \in 1..(points_count + 1) |->
                     LET index == i - 1
                         angle == index * delta_angle
                     IN  P(center_x + FMul(radius, cos(angle)),
                           center_y + FMul(radius, sin(angle)))]
         IN  [raised |-> FALSE, points |-> pts \o appended]


circle_append_to(pts, center, diameter, points_count) ==
    IF points_count = 0
    THEN [raised |-> TRUE, points |-> pts]   \* ZeroDivisionError
    ELSE LET delta_angle == AngleDiv(2 * pi, points_count)
             radius == RoundDiv(diameter, 2)
             center_x == center.x
             center_y == center.y
             \* for index in range(points_count): points.append(point)
             appended ==
                 [i \in 1..points_count |->
                     LET index == i - 1
                         angle == index * delta_angle
                     IN  P(center_x + FMul(radius, cos(angle)),
                           center_y + FMul(radius, sin(angle)))]
         IN  [raised |-> FALSE, points |-> pts \o appended]

\* rotated_rectangle_append_to appending the corners in the order they are declared
rotated_rectangle_append_to_declared_order(pts, center, dx, dy, angle) ==
    LET half_dx == RoundDiv(dx, 2)
        half_dy == RoundDiv(dy, 2)
        upper_right_corner == P(half_dx, half_dy)
        lower_right_corner == P(half_dx, -half_dy)
        upper_left_corner == P(-half_dx, half_dy)
        lower_left_corner == P(-half_dx, -half_dy)
        rotated_upper_right_corner == rotate2d(upper_right_corner, angle)
        rotated_lower_right_corner == rotate2d(lower_right_corner, angle)
        rotated_upper_left_corner == rotate2d(upper_left_corner, angle)
        rotated_lower_left_corner == rotate2d(lower_left_corner, angle)
    IN  [raised |-> FALSE,
         points |-> pts \o << P_add(center, rotated_upper_right_corner),
                              P_add(center, rotated_lower_right_corner),
                              P_add(center, rotated_upper_left_corner),
                              P_add(center, rotated_lower_left_corner) >>]


\* rotated_rectangle_append_to taking dx and dy for the half sizes
rotated_rectangle_append_to_full_size(pts, center, dx, dy, angle) ==
    LET half_dx == dx
        half_dy == dy
        upper_right_corner == P(half_dx, half_dy)
        lower_right_corner == P(half_dx, -half_dy)
        upper_left_corner == P(-half_dx, half_dy)
        lower_left_corner == P(-half_dx, -half_dy)
        rotated_upper_right_corner == rotate2d(upper_right_corner, angle)
        rotated_lower_right_corner == rotate2d(lower_right_corner, angle)
        rotated_upper_left_corner == rotate2d(upper_left_corner, angle)
        rotated_lower_left_corner == rotate2d(lower_left_corner, angle)
    IN  [raised |-> FALSE,
         points |-> pts \o << P_add(center, rotated_upper_right_corner),
                              P_add(center, rotated_lower_right_corner),
                              P_add(center, rotated_lower_left_corner),
                              P_add(center, rotated_upper_left_corner) >>]


rotated_rectangle_append_to(pts, center, dx, dy, angle) ==
    LET half_dx == RoundDiv(dx, 2)
        half_dy == RoundDiv(dy, 2)
        upper_right_corner == P(half_dx, half_dy)
        lower_right_corner == P(half_dx, -half_dy)
        upper_left_corner == P(-half_dx, half_dy)
        lower_left_corner == P(-half_dx, -half_dy)
        rotated_upper_right_corner == rotate2d(upper_right_corner, angle)
        rotated_lower_right_corner == rotate2d(lower_right_corner, angle)
        rotated_upper_left_corner == rotate2d(upper_left_corner, angle)
        rotated_lower_left_corner == rotate2d(lower_left_corner, angle)
    IN  [raised |-> FALSE,
         points |-> pts \o << P_add(center, rotated_upper_right_corner),
                              P_add(center, rotated_lower_right_corner),
                              P_add(center, rotated_lower_left_corner),
                              P_add(center, rotated_upper_left_corner) >>]

\* slot_append_to drawing the second arc over the angles of the first
slot_append_to_unturned(pts, end_point1, end_point2, slot_length, slot_width, points_count) ==
    LET center == P_truediv(P_add(end_point1, end_point2), 2)
        slot_angle == atan2(end_point1.y - end_point2.y, end_point1.x - end_point2.x)
        slot_radius == RoundDiv(slot_width, 2)
        half_slot_length == RoundDiv(slot_length, 2)
        degrees180 == pi
        center1 == P(center.x + FMul(half_slot_length, cos(slot_angle)),
                     center.y + FMul(half_slot_length, sin(slot_angle)))
        center2 == P(center.x + FMul(half_slot_length, cos(slot_angle + degrees180)),
                     center.y + FMul(half_slot_length, sin(slot_angle + degrees180)))
        degrees90 == pi \div 2
        arc1 == arc_append_to(pts, center1, slot_radius,
                              slot_angle - degrees90,
                              slot_angle + degrees90, points_count)
    IN  IF arc1.raised THEN arc1
        ELSE arc_append_to(arc1.points, center2, slot_radius,
                           slot_angle - degrees90,
                           slot_angle + degrees90, points_count)


\* slot_append_to drawing the arcs about the two end points
slot_append_to_at_ends(pts, end_point1, end_point2, slot_length, slot_width, points_count) ==
    LET center == P_truediv(P_add(end_point1, end_point2), 2)
        slot_angle == atan2(end_point1.y - end_point2.y, end_point1.x - end_point2.x)
        slot_radius == RoundDiv(slot_width, 2)
        half_slot_length == RoundDiv(slot_length, 2)
        degrees180 == pi
        center1 == end_point1
        center2 == end_point2
        degrees90 == pi \div 2
        arc1 == arc_append_to(pts, center1, slot_radius,
                              slot_angle - degrees90,
                              slot_angle + degrees90, points_count)
    IN  IF arc1.raised THEN arc1
        ELSE arc_append_to(arc1.points, center2, slot_radius,
                           slot_angle + degrees180 - degrees90,
                           slot_angle + degrees180 + degrees90, points_count)


\* slot_append_to drawing the second arc about center1 again
slot_append_to_same_center(pts, end_point1, end_point2, slot_length, slot_width, points_count) ==
    LET center == P_truediv(P_add(end_point1, end_point2), 2)
        slot_angle == atan2(end_point1.y - end_point2.y, end_point1.x - end_point2.x)
        slot_radius == RoundDiv(slot_width, 2)
        half_slot_length == RoundDiv(slot_length, 2)
        degrees180 == pi
        center1 == P(center.x + FMul(half_slot_length, cos(slot_angle)),
                     center.y + FMul(half_slot_length, sin(slot_angle)))
        center2 == P(center.x + FMul(half_slot_length, cos(slot_angle + degrees180)),
                     center.y + FMul(half_slot_length, sin(slot_angle + degrees180)))
        degrees90 == pi \div 2
        arc1 == arc_append_to(pts, center1, slot_radius,
                              slot_angle - degrees90,
                              slot_angle + degrees90, points_count)
    IN  IF arc1.raised THEN arc1
        ELSE arc_append_to(arc1.points, center1, slot_radius,
                           slot_angle + degrees180 - degrees90,
                           slot_angle + degrees180 + degrees90, points_count)


slot_append_to(pts, end_point1, end_point2, slot_length, slot_width, points_count) ==
    LET center == P_truediv(P_add(end_point1, end_point2), 2)
        slot_angle == atan2(end_point1.y - end_point2.y, end_point1.x - end_point2.x)
        slot_radius == RoundDiv(slot_width, 2)
        half_slot_length == RoundDiv(slot_length, 2)
        degrees180 == pi
        center1 == P(center.x + FMul(half_slot_length, cos(slot_angle)),
                     center.y + FMul(half_slot_length, sin(slot_angle)))
        center2 == P(center.x + FMul(half_slot_length, cos(slot_angle + degrees180)),
                     center.y + FMul(half_slot_length, sin(slot_angle + degrees180)))
        degrees90 == pi \div 2
        arc1 == arc_append_to(pts, center1, slot_radius,
                              slot_angle - degrees90,
                              slot_angle + degrees90, points_count)
    IN  IF arc1.raised THEN arc1
        ELSE arc_append_to(arc1.points, center2, slot_radius,
                           slot_angle + degrees180 - degrees90,
                           slot_angle + degrees180 + degrees90, points_count)

-----------------------------------------------------------------------------
(* Polygon: the two passes of a render.  Each takes the lines list, the    *)
(* Polygon (its name and points), the indent (a count of blanks) and the   *)
(* start index, and yields [scad_lines, end_index].                        *)

\* the slice size of Polygon.indices_scad_lines_append
indices_slice_size == 25
\* the slice size of Polygon.points_scad_lines_append
points_slice_size == 4

\* int(ceil(float(n) / float(size)))
CeilDiv(n, size) == (n + size - 1) \div size

Min(a, b) == IF a <= b THEN a ELSE b

\* points[slice_start:slice_end], 0-based and end-exclusive
Slice(seq, slice_start, slice_end) ==
    [i \in 1..(slice_end - slice_start) |-> seq[slice_start + i]]

\* the lines of all slices, in slice order
RECURSIVE Concat(_)
Concat(seqs) == IF seqs = <<>> THEN <<>> ELSE Head(seqs) \o Concat(Tail(seqs))

\* indices_scad_lines_append closing the list on a line shorter than a slice
indices_scad_lines_append_short_last(lines, name, pts, indent, start_index) ==
    LET points_size == Len(pts)
        end_index == start_index + points_size
        slice_size == indices_slice_size
        slices_count == CeilDiv(points_size, slice_size)
        comment == [kind |-> "polygon", indent |-> indent, name |-> name,
                    first |-> start_index, last |-> end_index - 1]
        SliceLine(slice_index) ==
            LET start_slice_index == slice_index * slice_size
                end_slice_index == Min((slice_index + 1) * slice_size, points_size)
                indices == [i \in 1..(end_slice_index - start_slice_index) |->
                               start_slice_index + i - 1]
                line_text == [i \in 1..Len(indices) |-> start_index + indices[i]]
                front_text == IF slice_index = 0 THEN "  [" ELSE "  "
                end_text == IF Len(indices) < slice_size THEN "]," ELSE ","
            IN  [kind |-> "indices", indent |-> indent, front_text |-> front_text,
                 line_text |-> line_text, end_text |-> end_text]
    IN  [scad_lines |-> lines \o <<comment>>
                             \o [s \in 1..slices_count |-> SliceLine(s - 1)],
         end_index |-> end_index]


\* indices_scad_lines_append writing the indices without the start index
indices_scad_lines_append_local(lines, name, pts, indent, start_index) ==
    LET points_size == Len(pts)
        end_index == start_index + points_size
        slice_size == indices_slice_size
        slices_count == CeilDiv(points_size, slice_size)
        comment == [kind |-> "polygon", indent |-> indent, name |-> name,
                    first |-> start_index, last |-> end_index - 1]
        SliceLine(slice_index) ==
            LET start_slice_index == slice_index * slice_size
                end_slice_index == Min((slice_index + 1) * slice_size, points_size)
                indices == [i \in 1..(end_slice_index - start_slice_index) |->
                               start_slice_index + i - 1]
                line_text == [i \in 1..Len(indices) |-> indices[i]]
                front_text == IF slice_index = 0 THEN "  [" ELSE "  "
                end_text == IF end_slice_index = points_size THEN "]," ELSE ","
            IN  [kind |-> "indices", indent |-> indent, front_text |-> front_text,
                 line_text |-> line_text, end_text |-> end_text]
    IN  [scad_lines |-> lines \o <<comment>>
                             \o [s \in 1..slices_count |-> SliceLine(s - 1)],
         end_index |-> end_index]

\* Polygon.indices_scad_lines_append: [scad_lines, end_index]
indices_scad_lines_append(lines, name, pts, indent, start_index) ==
    LET points_size == Len(pts)
        end_index == start_index + points_size
        slice_size == indices_slice_size
        slices_count == CeilDiv(points_size, slice_size)
        comment == [kind |-> "polygon", indent |-> indent, name |-> name,
                    first |-> start_index, last |-> end_index - 1]
        SliceLine(slice_index) ==
            LET start_slice_index == slice_index * slice_size
                end_slice_index == Min((slice_index + 1) * slice_size, points_size)
                indices == [i \in 1..(end_slice_index - start_slice_index) |->
                               start_slice_index + i - 1]
                line_text == [i \in 1..Len(indices) |-> start_index + indices[i]]
                front_text == IF slice_index = 0 THEN "  [" ELSE "  "
                end_text == IF end_slice_index = points_size THEN "]," ELSE ","
            IN  [kind |-> "indices", indent |-> indent, front_text |-> front_text,
                 line_text |-> line_text, end_text |-> end_text]
    IN  [scad_lines |-> lines \o <<comment>>
                             \o [s \in 1..slices_count |-> SliceLine(s - 1)],
         end_index |-> end_index]

\* points_scad_lines_append with the slice size of the indices pass
points_scad_lines_append_wide(lines, name, pts, indent, start_index) ==
    LET points_size == Len(pts)
        end_index == start_index + points_size
        slice_size == indices_slice_size
        slices_count == CeilDiv(points_size, slice_size)
        comment == [kind |-> "polygon", indent |-> indent, name |-> name,
                    first |-> start_index, last |-> end_index - 1]
        SliceLines(slice_index) ==
            LET slice_start == slice_index * slice_size
                slice_end == Min((slice_index + 1) * slice_size, points_size)
                slice_points == Slice(pts, slice_start, slice_end)
                point_texts ==
                    [i \in 1..Len(slice_points) |->
                        << NormalizeZero(Format3(slice_points[i].x)),
                           NormalizeZero(Format3(slice_points[i].y)) >>]
            IN  IF slice_points /= <<>>
                THEN << [kind |-> "points", indent |-> indent,
                         slice_text |-> point_texts,
                         first |-> start_index + slice_start,
                         last |-> start_index + slice_end - 1] >>
                ELSE <<>>
    IN  [scad_lines |-> lines \o <<comment>>
                             \o Concat([s \in 1..slices_count |-> SliceLines(s - 1)]),
         end_index |-> end_index]

\* Polygon.points_scad_lines_append: [scad_lines, end_index]
points_scad_lines_append(lines, name, pts, indent, start_index) ==
    LET points_size == Len(pts)
        end_index == start_index + points_size
        slice_size == points_slice_size
        slices_count == CeilDiv(points_size, slice_size)
        comment == [kind |-> "polygon", indent |-> indent, name |-> name,
                    first |-> start_index, last |-> end_index - 1]
        SliceLines(slice_index) ==
            LET slice_start == slice_index * slice_size
                slice_end == Min((slice_index + 1) * slice_size, points_size)
                slice_points == Slice(pts, slice_start, slice_end)
                point_texts ==
                    [i \in 1..Len(slice_points) |->
                        << NormalizeZero(Format3(slice_points[i].x)),
                           NormalizeZero(Format3(slice_points[i].y)) >>]
            IN  IF slice_points /= <<>>
                THEN << [kind |-> "points", indent |-> indent,
                         slice_text |-> point_texts,
                         first |-> start_index + slice_start,
                         last |-> start_index + slice_end - 1] >>
                ELSE <<>>
    IN  [scad_lines |-> lines \o <<comment>>
                             \o Concat([s \in 1..slices_count |-> SliceLines(s - 1)]),
         end_index |-> end_index]

-----------------------------------------------------------------------------
(* Romi (romi_model.py).  A Polygon made by Romi is the record             *)
(* [name, points].  The dimensions read off the .dxf file are given in     *)
(* millionths of an inch; an angle is the nearest 3-degree step.  Each     *)
(* method is the function of what it returns.                              *)

\* v * inches2mm, for v in millionths of an inch and inches2mm = 25.4
InchesMm(v) == RoundDiv(v * 127, 500)

\* Polygon(name)
Polygon(name) == [name |-> name, points |-> <<>>]

\* Romi.__init__: self.origin_offset
origin_offset ==
    LET axel_y_above == InchesMm(2967165)
        axel_y_below == InchesMm(2908110)
        y_origin_offset == RoundDiv(axel_y_above + axel_y_below, 2)
        upper_castor_x_left == InchesMm(-3930756)
        upper_castor_x_right == InchesMm(-3805256)
        x_origin_offset == RoundDiv(upper_castor_x_left + upper_castor_x_right, 2)
    IN  P(x_origin_offset, y_origin_offset)

\* Romi.hole_locate, the four arguments in millionths of an inch
hole_locate(left_x_inches, right_x_inches, above_y_inches, below_y_inches) ==
    LET left_x == InchesMm(left_x_inches)
        right_x == InchesMm(right_x_inches)
        above_y == InchesMm(above_y_inches)
        below_y == InchesMm(below_y_inches)
        dx == right_x - left_x
        dy == above_y - below_y
        x == RoundDiv(left_x + right_x, 2)
        y == RoundDiv(above_y + below_y, 2)
        diameter == RoundDiv(dx + dy, 2)
        center == P_sub(P(x, y), origin_offset)
    IN  [diameter |-> diameter, center |-> center]

\* Romi.base_outline_polygon_get: [raised, polygon].  debug says whether
\* the assert statements are executed (they are not under python -O).
base_outline_polygon_get_value(debug) ==
    LET diameter == Mm(163)
        radius == RoundDiv(diameter, 2)
        wheel_well_dx == Mm(125)
        wheel_well_dy == Mm(72)
        half_wheel_well_dx == RoundDiv(wheel_well_dx, 2)
        half_wheel_well_dy == RoundDiv(wheel_well_dy, 2)
        wheel_well_angle == asin(FDiv(half_wheel_well_dy, radius))
        wheel_well_x == FMul(radius, cos(wheel_well_angle))
        wheel_well_y == FMul(radius, sin(wheel_well_angle))
        wheel_well_corner == P(wheel_well_x, wheel_well_y)
        origin == P(0, 0)
        wheel_well_radius == distance(origin, wheel_well_corner)
        \* assert abs(radius - wheel_well_radius) < .00001: the floats differ
        \* by far less; here the sines are good to half a unit, and the two
        \* are compared up to what that leaves in a length of radius
        radius_matches == Abs(radius - wheel_well_radius) <= FMul(radius, 1)
        outline_polygon == Polygon("Romi Base Exterior")
        upper_start_angle == wheel_well_angle
        upper_end_angle == pi - wheel_well_angle
        arc_count == 21
        upper_arc == arc_append_to(outline_polygon.points, origin, radius,
                                   upper_start_angle, upper_end_angle, arc_count)
        \* the two point_append calls of the left wheel well
        left_well == upper_arc.points
                         \o << P(-half_wheel_well_dx, half_wheel_well_dy),
                               P(-half_wheel_well_dx, -half_wheel_well_dy) >>
        lower_start_angle == wheel_well_angle + pi
        lower_end_angle == upper_end_angle + pi
        lower_arc == arc_append_to(left_well, origin, radius,
                                   lower_start_angle, lower_end_angle, arc_count)
        \* the two point_append calls of the right wheel well
        right_well == lower_arc.points
                          \o << P(half_wheel_well_dx, -half_wheel_well_dy),
                                P(half_wheel_well_dx, half_wheel_well_dy) >>
        \* assert len(outline_polygon) == 2 * arc_count + 4
        length_matches == Len(right_well) = 2 * arc_count + 4
    IN  IF debug /\ ~radius_matches
        THEN [raised |-> "AssertionError", polygon |-> outline_polygon]
        ELSE IF upper_arc.raised \/ lower_arc.raised
        THEN [raised |-> "ZeroDivisionError", polygon |-> outline_polygon]
        ELSE IF debug /\ ~length_matches
        THEN [raised |-> "AssertionError",
              polygon |-> [outline_polygon EXCEPT !.points = right_well]]
        ELSE [raised |-> "",
              polygon |-> [outline_polygon EXCEPT !.points = right_well]]

\* the Polygon of one hole: Polygon(name) and circle_append(center, diameter, 8)
HolePolygon(name, center, diameter) ==
    [name |-> name, points |-> circle_append_to(<<>>, center, diameter, 8).points]

\* the text of an int in an f-string
Str(n) == ToString(n)

\* Romi.battery_polygons_get
battery_polygons_get_value ==
    LET reference == hole_locate(-3913146, -3822591, 3376610, 3286051)
        reference_hole_diameter == reference.diameter
        reference_hole_center == reference.center
        lower_battery_y_offsets == << 0, -123000, -123000 - 123000 >>
        lower_battery_patterns ==
            << << "-", "-", "*", "*", "O", "*", "*", "-", "-" >>,
               << "-", "-", "*", "*", "*", "*", "*", "-", "-" >>,
               << "*", "-", "*", "*", "*", "*", "*", "-", "*" >> >>
        reference_hole_center_y == reference_hole_center.y
        hole_dx_pitch == Mm(10)
        lower_column0_x == FMul(-40000, hole_dx_pitch)
        \* for x_index in range(9): for y_index, pattern in enumerate(...)
        lower_cells == [k \in 1..(9 * 3) |->
                           [x_index |-> (k - 1) \div 3, y_index |-> (k - 1) % 3]]
        lower_needed ==
            SelectSeq(lower_cells,
                      LAMBDA c : lower_battery_patterns[c.y_index + 1][c.x_index + 1] /= "-")
        LowerHole(c) ==
            LET x == lower_column0_x + c.x_index * hole_dx_pitch
                y == reference_hole_center_y + lower_battery_y_offsets[c.y_index + 1]
            IN  HolePolygon("Lower Battery Hole (" \o Str(2 - c.x_index) \o ", "
                                \o Str(c.y_index) \o ")",
                            P(x, y), reference_hole_diameter)
        upper_battery_y_offsets == << 70000, 70000 + 123000, 70000 + 123000 + 123000 >>
        upper_column0_x == FMul(-45000, hole_dx_pitch)
        \* for x_index in range(10): for y_index in range(3)
        upper_cells == [k \in 1..(10 * 3) |->
                           [x_index |-> (k - 1) \div 3, y_index |-> (k - 1) % 3]]
        UpperHole(c) ==
            LET x == upper_column0_x + c.x_index * hole_dx_pitch
                y == reference_hole_center_y + upper_battery_y_offsets[c.y_index + 1]
            IN  HolePolygon("Upper Battery Hole (" \o Str(2 - c.x_index) \o ", "
                                \o Str(c.y_index) \o ")",
                            P(x, y), reference_hole_diameter)
    IN  [i \in 1..Len(lower_needed) |-> LowerHole(lower_needed[i])]
            \o [i \in 1..Len(upper_cells) |-> UpperHole(upper_cells[i])]

\* str.isupper() of a letter of a pattern
UpperCase ==
    { "A", "B", "C", "D", "E", "F", "G", "H", "I", "J", "K", "L", "M",
      "N", "O", "P", "Q", "R", "S", "T", "U", "V", "W", "X", "Y", "Z" }

\* Romi.hex_pattern_get: [polygons, locations].  A pattern row is the
\* sequence of its characters, a slot pair the pair of its two letters.
hex_pattern_get(pattern_rows, slot_pairs, hex_origin, hole_diameter) ==
    LET hex_dy_pitch == 75000
        half_hex_dx_pitch == FDiv(hex_dy_pitch, sqrt(30000))
        slot_left_x == InchesMm(-2437146)
        slot_right_x == InchesMm(-2346591)
        slot_top_y == InchesMm(1339205)
        slot_bottom_y == InchesMm(1051803)
        slot_dx == slot_right_x - slot_left_x
        slot_dy == slot_top_y - slot_bottom_y
        slot_length == slot_dy - slot_dx
        slot_width == slot_dx
        HasOrigin(row) == \E x \in 1..Len(row) : row[x] = "O"
        \* the first row with an 'O', and pattern_row.find('O') in it
        y_offset == (CHOOSE y \in 1..Len(pattern_rows) :
                        /\ HasOrigin(pattern_rows[y])
                        /\ \A z \in 1..(y - 1) : ~HasOrigin(pattern_rows[z])) - 1
        x_offset == (CHOOSE x \in 1..Len(pattern_rows[y_offset + 1]) :
                        /\ pattern_rows[y_offset + 1][x] = "O"
                        /\ \A z \in 1..(x - 1) : pattern_rows[y_offset + 1][z] /= "O") - 1
        upper_left_origin_x == hex_origin.x - x_offset * half_hex_dx_pitch
        upper_left_origin_y == hex_origin.y + y_offset * hex_dy_pitch
        \* for y_index, pattern_row: for x_index, pattern_character
        cells ==
            Concat([r \in 1..Len(pattern_rows) |->
                       [c \in 1..Len(pattern_rows[r]) |->
                           [x_index |-> c - 1, y_index |-> r - 1,
                            pattern_character |-> pattern_rows[r][c]]]])
        Center(cell) ==
            P(upper_left_origin_x + cell.x_index * half_hex_dx_pitch,
              upper_left_origin_y - cell.y_index * hex_dy_pitch)
        named == SelectSeq(cells, LAMBDA cell : cell.pattern_character /= "-")
        \* locations[pattern_character] = hole_center: the last one stays
        locations ==
            [ch \in { named[i].pattern_character : i \in 1..Len(named) } |->
                LET i == CHOOSE j \in 1..Len(named) :
                             /\ named[j].pattern_character = ch
                             /\ \A k \in (j + 1)..Len(named) :
                                    named[k].pattern_character /= ch
                IN  Center(named[i])]
        holes == SelectSeq(named, LAMBDA cell : cell.pattern_character \in UpperCase)
        points_count == 8
        HexHole(cell) ==
            [name |-> "Hex Hole (" \o Str(cell.x_index) \o ", "
                          \o Str(cell.y_index) \o ")",
             points |-> circle_append_to(<<>>, Center(cell), hole_diameter,
                                         points_count).points]
        Slot(slot_pair) ==
            LET hole1 == locations[slot_pair[1]]
                hole2 == locations[slot_pair[2]]
            IN  [name |-> "Slot '" \o slot_pair[1] \o slot_pair[2] \o "'",
                 points |-> slot_append_to(<<>>, hole1, hole2, slot_length,
                                           slot_width, points_count).points]
    IN  [polygons |-> [i \in 1..Len(holes) |-> HexHole(holes[i])]
                          \o [i \in 1..Len(slot_pairs) |-> Slot(slot_pairs[i])],
         locations |-> locations]

\* Romi.upper_hex_polygons_get
upper_hex_polygons_get ==
    LET upper_hex_hole == hole_locate(-2749535, -2629075, 5441567, 5316441)
        upper_pattern_rows ==
            << << "a", "-", "-", "-", "-", "-", "-" >>,
               << "-", "A", "-", "O", "-", "-", "-" >>,
               << "b", "-", "B", "-", "C", "-", "c" >>,
               << "-", "-", "-", "d", "-", "-", "-" >> >>
        upper_slot_pairs == << <<"a", "O">>, <<"b", "O">>, <<"d", "O">>, <<"c", "O">> >>
    IN  hex_pattern_get(upper_pattern_rows, upper_slot_pairs,
                        upper_hex_hole.center, upper_hex_hole.diameter).polygons

\* Romi.lower_hex_polygons_table_get: [polygons, locations]
lower_hex_polygons_table_get ==
    LET lower_hex_hole == hole_locate(-2454646, -2329091, 1553776, 1428650)
        lower_pattern_rows ==
            << << "-", "-", "-", "A", "-", "B", "-", "C", "-", "D", "-" >>,
               << "-", "-", "-", "-", "E", "-", "O", "-", "F", "-", "G" >>,
               << "-", "-", "-", "a", "-", "H", "-", "I", "-", "J", "-" >>,
               << "-", "-", "-", "-", "K", "-", "L", "-", "M", "-", "-" >>,
               << "-", "-", "-", "N", "-", "Q", "-", "-", "-", "-", "-" >>,
               << "R", "-", "S", "-", "-", "-", "-", "-", "-", "-", "-", "-" >> >>
        lower_slot_pairs ==
            << <<"A", "O">>, <<"O", "D">>, <<"A", "a">>, <<"a", "O">>,
               <<"J", "O">>, <<"D", "J">>, <<"O", "L">>, <<"a", "L">>,
               <<"L", "J">>, <<"a", "N">>, <<"N", "L">>, <<"R", "N">> >>
    IN  hex_pattern_get(lower_pattern_rows, lower_slot_pairs,
                        lower_hex_hole.center, lower_hex_hole.diameter)

\* Romi.line_hole_polygons_get
line_hole_polygons_get(lower_hex_table) ==
    LET small_hole == hole_locate(-3289535, -3198980, 256524, 165984)
        small_hole_diameter == small_hole.diameter
        s_center == lower_hex_table["S"]
        q_center == lower_hex_table["Q"]
        hole_vector == P_sub(q_center, s_center)
        \* for vector_hole_index in range(9): if vector_hole_index % 3 != 1
        indices == SelectSeq([k \in 1..9 |-> k - 1], LAMBDA i : i % 3 /= 1)
        LineHole(vector_hole_index) ==
            LET hole_center ==
                    P_add(s_center,
                          P_truediv(P_rmul(hole_vector, Mm(vector_hole_index - 1)), 3))
            IN  HolePolygon("Vector Hole " \o Str(vector_hole_index),
                            hole_center, small_hole_diameter)
    IN  [i \in 1..Len(indices) |-> LineHole(indices[i])]

\* Romi.arc_hole_rectangle_polygons_get
arc_hole_rectangle_polygons_get ==
    LET lower_start == hole_locate(-1483063, -1357508, 1348929, 1223803)
        lower_start_diameter == lower_start.diameter
        lower_start_center == lower_start.center
        lower_arc_start_angle == atan2(lower_start_center.y, lower_start_center.x)
        lower_end == hole_locate(-3229035, -3354591, 104610, -20516)
        lower_end_center == lower_end.center
        lower_arc_end_angle == atan2(lower_end_center.y, lower_end_center.x)
        origin == P3(0, 0, 0)
        lower_hole_radius == distance(origin, lower_start_center)
        large_upper_left_corner ==
            P_sub(P(InchesMm(-1248201), InchesMm(1259484)), origin_offset)
        large_lower_left_corner ==
            P_sub(P(InchesMm(-1331370), InchesMm(1136248)), origin_offset)
        large_upper_right_corner ==
            P_sub(P(InchesMm(-1205772), InchesMm(1230858)), origin_offset)
        large_rectangle_length == distance(large_upper_left_corner, large_lower_left_corner)
        rectangle_width == distance(large_upper_left_corner, large_upper_right_corner)
        rectangle_center ==
            P_truediv(P_add(large_upper_right_corner, large_lower_left_corner), 2)
        rectangle_radius == distance(origin, rectangle_center)
        small_upper_left_corner ==
            P_sub(P(InchesMm(-1368228), InchesMm(1081638)), origin_offset)
        small_lower_left_corner ==
            P_sub(P(InchesMm(-1431575), InchesMm(987760)), origin_offset)
        small_rectangle_length == distance(small_upper_left_corner, small_lower_left_corner)
        small_hole_diameter == 12000
        lower_holes_count == 13
        delta_angle == AngleDiv(lower_arc_end_angle - lower_arc_start_angle,
                                lower_holes_count - 1)
        \* for lower_hole_index in range(lower_holes_count): a hole, then a
        \* rectangle
        Pair(lower_hole_index) ==
            LET lower_arc_hole_diameter ==
                    IF lower_hole_index % 3 = 0 THEN lower_start_diameter
                    ELSE small_hole_diameter
                lower_rectangle_length ==
                    IF lower_hole_index % 3 = 0 THEN large_rectangle_length
                    ELSE small_rectangle_length
                lower_hole_angle == lower_arc_start_angle + lower_hole_index * delta_angle
                lower_hole_x == FMul(lower_hole_radius, cos(lower_hole_angle))
                lower_hole_y == FMul(lower_hole_radius, sin(lower_hole_angle))
                lower_hole_center == P(lower_hole_x, lower_hole_y)
                lower_hole == HolePolygon("Lower hole " \o Str(lower_hole_index),
                                          lower_hole_center, lower_arc_hole_diameter)
                lower_rectangle_x == FMul(rectangle_radius, cos(lower_hole_angle))
                lower_rectangle_y == FMul(rectangle_radius, sin(lower_hole_angle))
                lower_rectangle_center == P(lower_rectangle_x, lower_rectangle_y)
                lower_rectangle ==
                    [name |-> "Lower left rectangle " \o Str(lower_hole_index),
                     points |-> rotated_rectangle_append_to(
                                    <<>>, lower_rectangle_center, rectangle_width,
                                    lower_rectangle_length, lower_hole_angle).points]
            IN  << lower_hole, lower_rectangle >>
    IN  Concat([k \in 1..lower_holes_count |-> Pair(k - 1)])

\* all_polygons with the outline after the holes
all_polygons_outline_last(base_outline_polygon, upper_hex_polygons, lower_hex_polygons, battery_polygons, line_hole_polygons, arc_hole_rectangle_polygons) ==
    upper_hex_polygons \o lower_hex_polygons \o battery_polygons
        \o line_hole_polygons \o arc_hole_rectangle_polygons
        \o <<base_outline_polygon>>

\* Romi.base_scad_polygon_generate: all_polygons, the list the ScadPolygon
\* is constructed with
all_polygons(base_outline_polygon, upper_hex_polygons, lower_hex_polygons, battery_polygons, line_hole_polygons, arc_hole_rectangle_polygons) ==
    <<base_outline_polygon>> \o upper_hex_polygons \o lower_hex_polygons
        \o battery_polygons \o line_hole_polygons \o arc_hole_rectangle_polygons

\* Romi.base_scad_polygon_generate once the methods it calls have returned
\* base_outline ([raised, polygon]), lower_hex ([polygons, locations]) and
\* the lists of Polygon's: [raised, polygons, convexity], the polygons and
\* the convexity being those of the ScadPolygon it returns
base_scad_polygon_of(base_outline, battery_polygons, upper_hex_polygons, lower_hex, arc_hole_rectangle_polygons) ==
    IF base_outline.raised /= ""
    THEN [raised |-> base_outline.raised, polygons |-> <<>>, convexity |-> -1]
    ELSE [raised |-> "",
          polygons |-> all_polygons(base_outline.polygon, upper_hex_polygons,
                                    lower_hex.polygons, battery_polygons,
                                    line_hole_polygons_get(lower_hex.locations),
                                    arc_hole_rectangle_polygons),
          convexity |-> -1]

\* Romi.base_scad_polygon_generate: [raised, polygons, convexity]
base_scad_polygon_generate_value(debug) ==
    base_scad_polygon_of(base_outline_polygon_get_value(debug),
                         battery_polygons_get_value, upper_hex_polygons_get,
                         lower_hex_polygons_table_get,
                         arc_hole_rectangle_polygons_get)

-----------------------------------------------------------------------------
(* ScadPolygon and Scad.file_write *)

\* the name of the ScadPolygon: the one Romi makes, whose Polygon's are
\* those after PolygonIds, or "demo"
scad_name ==
    IF polygons /= <<>> /\ polygons[1] \notin PolygonIds
    THEN "Romi Base ScadPolygon" ELSE "demo"

\* the names of the Polygon's of PolygonIds
DemoNames == [p \in PolygonIds |-> IF p = 1 THEN "square" ELSE "hole"]

\* the name of Polygon p
PolygonName(p) == names[p]

\* rest, taken up once first has its value: the statements of a loop run
\* one after the other
After(first, rest) == IF first = first THEN rest ELSE rest

RECURSIVE PointsPass_reversed(_, _, _, _)
\* PointsPass going from the last Polygon to the first
PointsPass_reversed(polys, lines, next_indent, index) ==
    IF polys = <<>> THEN [scad_lines |-> lines, end_index |-> index]
    ELSE IF Len(polys) = 1
    THEN points_scad_lines_append(lines, PolygonName(polys[1]),
                                  points[polys[1]], next_indent, index)
    ELSE LET half == Len(polys) \div 2
             r == PointsPass_reversed(SubSeq(polys, half + 1, Len(polys)), lines,
                                      next_indent, index)
         IN  After(r, PointsPass_reversed(SubSeq(polys, 1, half), r.scad_lines,
                                          next_indent, r.end_index))

\* PointsLoop going from the last Polygon to the first
PointsLoop_reversed(polys, lines, next_indent, index) ==
    PointsPass_reversed(polys, lines, next_indent, index).scad_lines

RECURSIVE PointsPass(_, _, _, _)
\* The Polygon's of polys taken in order, each starting with the lines and
\* the index the one before it left: [scad_lines, end_index] after the last.
\* The list is taken half by half, which keeps the evaluation shallow.
PointsPass(polys, lines, next_indent, index) ==
    IF polys = <<>> THEN [scad_lines |-> lines, end_index |-> index]
    ELSE IF Len(polys) = 1
    THEN points_scad_lines_append(lines, PolygonName(polys[1]),
                                  points[polys[1]], next_indent, index)
    ELSE LET half == Len(polys) \div 2
             r == PointsPass(SubSeq(polys, 1, half), lines, next_indent, index)
         IN  After(r, PointsPass(SubSeq(polys, half + 1, Len(polys)), r.scad_lines,
                                 next_indent, r.end_index))

\* for polygon in polygons:
\*     index = polygon.points_scad_lines_append(scad_lines, next_indent, index)
PointsLoop(polys, lines, next_indent, index) ==
    PointsPass(polys, lines, next_indent, index).scad_lines

RECURSIVE IndicesPass(_, _, _, _)
\* PointsPass for the index lists
IndicesPass(polys, lines, next_indent, index) ==
    IF polys = <<>> THEN [scad_lines |-> lines, end_index |-> index]
    ELSE IF Len(polys) = 1
    THEN indices_scad_lines_append(lines, PolygonName(polys[1]),
                                   points[polys[1]], next_indent, index)
    ELSE LET half == Len(polys) \div 2
             r == IndicesPass(SubSeq(polys, 1, half), lines, next_indent, index)
         IN  After(r, IndicesPass(SubSeq(polys, half + 1, Len(polys)), r.scad_lines,
                                  next_indent, r.end_index))

\* for polygon in polygons:
\*     index = polygon.indices_scad_lines_append(scad_lines, next_indent, index)
IndicesLoop(polys, lines, next_indent, index) ==
    IndicesPass(polys, lines, next_indent, index).scad_lines

\* ScadPolygon.scad_lines_append: the lines list after the call
scad_lines_append(lines, indent) ==
    LET polygons_size == Len(polygons)
        lines1 == lines \o << [kind |-> "begin", indent |-> indent, name |-> scad_name,
                               last |-> polygons_size - 1],
                              [kind |-> "polygon(points = [", indent |-> indent] >>
        next_indent == indent + 1
        lines2 == PointsLoop(polygons, lines1, next_indent, 0)
        lines3 == lines2 \o << [kind |-> " ], paths = [", indent |-> indent] >>
        lines4 == IndicesLoop(polygons, lines3, next_indent, 0)
        convexity_text == IF convexity < 0 THEN <<>> ELSE <<convexity>>
    IN  lines4 \o << [kind |-> "end", indent |-> indent,
                      convexity_text |-> convexity_text,
                      name |-> scad_name, last |-> polygons_size - 1] >>

-----------------------------------------------------------------------------
(* The inputs the calls are made with *)

PointInputs == { P(-1, Mm(2)) }

\* [center, radius, start_angle, end_angle, points_count]
ArcInputs ==
    { [center |-> P(Mm(1), 0), radius |-> Mm(2), start_angle |-> a[1],
       end_angle |-> a[2], points_count |-> a[3]] :
        a \in { <<0, 60, 2>>, <<-30, 30, 3>>, <<60, 0, 3>>, <<0, 90, 4>>,
                <<0, 60, 1>>, <<0, 60, 0>>, <<0, 60, -1>> } }

\* [center, diameter, points_count]
CircleInputs ==
    { [center |-> P(0, Mm(1)), diameter |-> Mm(4), points_count |-> c] :
        c \in {-1, 0, 1, 2, 3, 4} }

\* [center, dx, dy, angle]
RectangleInputs ==
    { [center |-> P3(0, 0, 0), dx |-> Mm(10), dy |-> Mm(10), angle |-> 0],
      [center |-> P(Mm(1), Mm(2)), dx |-> Mm(4), dy |-> Mm(2), angle |-> 30],
      [center |-> P(Mm(1), Mm(2)), dx |-> Mm(4), dy |-> Mm(2), angle |-> 10] }

\* [end_point1, end_point2, slot_length, slot_width, points_count]
SlotInputs ==
    { [end_point1 |-> e[1], end_point2 |-> e[2], slot_length |-> Mm(6),
       slot_width |-> Mm(2), points_count |-> n] :
        e \in { <<P(0, 0), P(Mm(4), 0)>>, <<P(Mm(2), Mm(2)), P(0, 0)>> },
        n \in {0, 1, 2, 3} }

\* the rectangle of the ScadPolygon "demo"
SquareInputs ==
    { [center |-> P3(0, 0, 0), dx |-> Mm(10), dy |-> Mm(10), angle |-> 0] }

\* [polygons, convexity] of the ScadPolygon, and whether "hole" is constructed
\* with SeedPoints; -1 is the default convexity
ConstructorInputs ==
    { [polygons |-> <<>>, convexity |-> -1, seeded |-> FALSE],
      [polygons |-> <<1>>, convexity |-> 0, seeded |-> FALSE],
      [polygons |-> <<>>, convexity |-> -1, seeded |-> TRUE],
      [polygons |-> <<2>>, convexity |-> 2, seeded |-> TRUE] }

\* the lists extend is called with
ExtendInputs == { <<>> } \cup { <<p, q>> : p \in PolygonIds, q \in PolygonIds }

\* the points list a Polygon can be constructed with: one point more than a
\* line of indices holds
SeedPoints == [k \in 1..(indices_slice_size + 1) |-> P(Mm(k), -Mm(k))]

\* the number of points appended to Polygon p since it was constructed
AppendedLen(p) ==
    IF Len(points[p]) >= Len(SeedPoints)
       /\ SubSeq(points[p], 1, Len(SeedPoints)) = SeedPoints
    THEN Len(points[p]) - Len(SeedPoints)
    ELSE Len(points[p])

RECURSIVE SumLen(_)
\* the number of points appended to the Polygon's of ps
SumLen(ps) == IF ps = {} THEN 0
              ELSE LET p == CHOOSE q \in ps : TRUE
                   IN  AppendedLen(p) + SumLen(ps \ {p})

\* room for n more points
Room(n, max) == SumLen(PolygonIds) + n <= max

-----------------------------------------------------------------------------
(* The state machine *)

NoArgs == [none |-> TRUE]

\* the list objects that hold references to Polygon objects
PolygonListIds == {"caller", "set"}

\* No ScadPolygon object followed by reference
NoSet ==
    /\ polygon_lists = [l \in PolygonListIds |-> <<>>]
    /\ self_polygons = "none"
    /\ kept = [given |-> <<>>, added |-> <<>>]

\* The objects as constructed: Polygon("square"), Polygon("hole") or
\* Polygon("hole", SeedPoints), and ScadPolygon("demo", polygons, convexity)
\* No object followed by reference: no P object, every list empty, no
\* Polygon object constructed
NoObjects ==
    /\ heap = <<>>
    /\ lists = [l \in ListIds |-> <<>>]
    /\ self_points = [g \in PolygonObjects |-> "none"]
    /\ seed = [g \in PolygonObjects |-> [refs |-> <<>>, points |-> <<>>]]
    /\ own = [g \in PolygonObjects |-> <<>>]
    /\ NoSet
    /\ made = <<>>

Init ==
    /\ NoObjects
    /\ \E c \in ConstructorInputs :
          /\ points = [p \in PolygonIds |-> IF p = 2 /\ c.seeded THEN SeedPoints ELSE <<>>]
          /\ polygons = c.polygons
          /\ convexity = c.convexity
    /\ scad_lines = <<>>
    /\ rendered = "never"
    /\ names = DemoNames
    /\ repeat = "none"
    /\ late = FALSE
    /\ last = [op |-> "init", poly |-> 0, args |-> NoArgs, before |-> <<>>,
               raised |-> "", value |-> <<>>]

InSet(p) == \E i \in 1..Len(polygons) : polygons[i] = p

\* What an appender call on Polygon p leaves: r is [raised, points].
Appended(op, p, args, r) ==
    /\ points' = [points EXCEPT ![p] = r.points]
    /\ rendered' = IF rendered /= "never" /\ r.points /= points[p]
                   THEN "dirty" ELSE rendered
    /\ late' = (late \/ (InSet(p) /\ r.points /= points[p]))
    /\ last' = [op |-> op, poly |-> p, args |-> args, before |-> points[p],
                raised |-> IF r.raised THEN "ZeroDivisionError" ELSE "",
                value |-> <<>>]
    /\ UNCHANGED <<polygons, convexity, scad_lines, repeat>>
    /\ UNCHANGED names
    /\ UNCHANGED object_vars

\* point_append putting the point in front of the list
point_append_front(p, point, max) ==
    /\ Room(1, max)
    /\ Appended("point_append", p, [point |-> point],
                [raised |-> FALSE, points |-> <<point>> \o points[p]])

point_append(p, point, max) ==
    /\ Room(1, max)
    /\ Appended("point_append", p, [point |-> point],
                [raised |-> FALSE, points |-> Append(points[p], point)])

arc_append(p, a, max) ==
    /\ Room(a.points_count, max)
    /\ Appended("arc_append", p, a,
                arc_append_to(points[p], a.center, a.radius, a.start_angle,
                              a.end_angle, a.points_count))

circle_append(p, a, max) ==
    /\ Room(a.points_count, max)
    /\ Appended("circle_append", p, a,
                circle_append_to(points[p], a.center, a.diameter, a.points_count))

rotated_rectangle_append(p, a, max) ==
    /\ Room(4, max)
    /\ Appended("rotated_rectangle_append", p, a,
                rotated_rectangle_append_to(points[p], a.center, a.dx, a.dy, a.angle))

slot_append(p, a, max) ==
    /\ Room(2 * a.points_count, max)
    /\ Appended("slot_append", p, a,
                slot_append_to(points[p], a.end_point1, a.end_point2,
                               a.slot_length, a.slot_width, a.points_count))

\* container[index] behind "assert 0 <= index < size": with asserts on
\* (debug) the assert decides; with asserts stripped (python -O) the list
\* subscript does.  Yields [raised, value].
CheckedGetItem(container, index, debug) ==
    LET size == Len(container)
    IN  IF debug /\ ~(0 <= index /\ index < size)
        THEN [raised |-> "AssertionError", value |-> <<>>]
        ELSE IF 0 <= index /\ index < size
        THEN [raised |-> "", value |-> <<container[index + 1]>>]
        ELSE IF -size <= index /\ index < 0
        THEN [raised |-> "", value |-> <<container[size + index + 1]>>]
        ELSE [raised |-> "IndexError", value |-> <<>>]

Polygon_getitem(p, index, debug) ==
    LET r == CheckedGetItem(points[p], index, debug)
    IN  /\ last' = [op |-> "Polygon.__getitem__", poly |-> p,
                    args |-> [index |-> index], before |-> points[p],
                    raised |-> r.raised, value |-> r.value]
        /\ UNCHANGED <<points, polygons, convexity, scad_lines, rendered, repeat, late>>
        /\ UNCHANGED names
        /\ UNCHANGED object_vars

ScadPolygon_getitem(index, debug) ==
    LET r == CheckedGetItem(polygons, index, debug)
    IN  /\ last' = [op |-> "ScadPolygon.__getitem__", poly |-> 0,
                    args |-> [index |-> index], before |-> polygons,
                    raised |-> r.raised, value |-> r.value]
        /\ UNCHANGED <<points, polygons, convexity, scad_lines, rendered, repeat, late>>
        /\ UNCHANGED names
        /\ UNCHANGED object_vars

\* ScadPolygon.__len__
ScadPolygon_len ==
    /\ last' = [op |-> "ScadPolygon.__len__", poly |-> 0, args |-> NoArgs,
                before |-> polygons, raised |-> "", value |-> <<Len(polygons)>>]
    /\ UNCHANGED <<points, polygons, convexity, scad_lines, rendered, repeat, late>>
    /\ UNCHANGED names
    /\ UNCHANGED object_vars

\* ScadPolygon.append putting the Polygon in front of the list
append_front(polygon) ==
    /\ Len(polygons) < MaxPolygons
    /\ polygons' = <<polygon>> \o polygons
    /\ rendered' = IF rendered = "never" THEN "never" ELSE "dirty"
    /\ last' = [op |-> "append", poly |-> 0, args |-> [polygon |-> polygon],
                before |-> polygons, raised |-> "", value |-> <<>>]
    /\ UNCHANGED <<points, convexity, scad_lines, repeat, late>>
    /\ UNCHANGED names
    /\ UNCHANGED object_vars

\* ScadPolygon.append
append(polygon) ==
    /\ Len(polygons) < MaxPolygons
    /\ polygons' = Append(polygons, polygon)
    /\ rendered' = IF rendered = "never" THEN "never" ELSE "dirty"
    /\ last' = [op |-> "append", poly |-> 0, args |-> [polygon |-> polygon],
                before |-> polygons, raised |-> "", value |-> <<>>]
    /\ UNCHANGED <<points, convexity, scad_lines, repeat, late>>
    /\ UNCHANGED names
    /\ UNCHANGED object_vars

\* ScadPolygon.extend
extend(new_polygons) ==
    /\ Len(polygons) + Len(new_polygons) <= MaxPolygons
    /\ polygons' = polygons \o new_polygons
    /\ rendered' = IF rendered = "never" \/ new_polygons = <<>>
                   THEN rendered ELSE "dirty"
    /\ last' = [op |-> "extend", poly |-> 0, args |-> [new_polygons |-> new_polygons],
                before |-> polygons, raised |-> "", value |-> <<>>]
    /\ UNCHANGED <<points, convexity, scad_lines, repeat, late>>
    /\ UNCHANGED names
    /\ UNCHANGED object_vars

\* file_write writing the lines of the first call again
file_write_cached ==
    LET lines0 == << [kind |-> "file", name |-> scad_name] >>
        lines2 == IF scad_lines /= <<>> THEN scad_lines
                  ELSE Append(scad_lines_append(lines0, 0), [kind |-> ""])
    IN  /\ scad_lines' = lines2
        /\ repeat' = IF rendered = "clean"
                     THEN (IF lines2 = scad_lines THEN "same" ELSE "differs")
                     ELSE "none"
        /\ rendered' = "clean"
        /\ last' = [op |-> "file_write", poly |-> 0, args |-> NoArgs,
                    before |-> polygons, raised |-> "", value |-> <<>>]
        /\ UNCHANGED <<points, polygons, convexity, late>>
        /\ UNCHANGED names
        /\ UNCHANGED object_vars

\* file_write appending to the lines list of the call before
file_write_kept_lines ==
    LET lines0 == Append(scad_lines, [kind |-> "file", name |-> scad_name])
        lines1 == scad_lines_append(lines0, 0)
        lines2 == Append(lines1, [kind |-> ""])
    IN  /\ scad_lines' = lines2
        /\ repeat' = IF rendered = "clean"
                     THEN (IF lines2 = scad_lines THEN "same" ELSE "differs")
                     ELSE "none"
        /\ rendered' = "clean"
        /\ last' = [op |-> "file_write", poly |-> 0, args |-> NoArgs,
                    before |-> polygons, raised |-> "", value |-> <<>>]
        /\ UNCHANGED <<points, polygons, convexity, late>>
        /\ UNCHANGED names
        /\ UNCHANGED object_vars

\* Scad.file_write on the ScadPolygon: the lines it joins and writes
file_write ==
    LET lines0 == << [kind |-> "file", name |-> scad_name] >>
        lines1 == scad_lines_append(lines0, 0)
        lines2 == Append(lines1, [kind |-> ""])
    IN  /\ scad_lines' = lines2
        /\ repeat' = IF rendered = "clean"
                     THEN (IF lines2 = scad_lines THEN "same" ELSE "differs")
                     ELSE "none"
        /\ rendered' = "clean"
        /\ last' = [op |-> "file_write", poly |-> 0, args |-> NoArgs,
                    before |-> polygons, raised |-> "", value |-> <<>>]
        /\ UNCHANGED <<points, polygons, convexity, late>>
        /\ UNCHANGED names
        /\ UNCHANGED object_vars

\* the indices element access on a container is tried with
IndexInputs(container) == (-Len(container) - 1) .. (Len(container) + 1)

(* The ScadPolygon: Polygon's are filled, collected and written.  What is  *)
(* written depends on the Polygon's only through their points lists, which *)
(* point_append and rotated_rectangle_append fill here.                    *)
Next ==
    \/ \E p \in PolygonIds, point \in PointInputs : point_append(p, point, MaxPoints)
    \/ \E p \in PolygonIds, a \in SquareInputs :
          rotated_rectangle_append(p, a, MaxPoints)
    \/ \E p \in PolygonIds : append(p)
    \/ \E ps \in ExtendInputs : extend(ps)
    \/ file_write

Spec == Init /\ [][Next]_vars

(* The tessellation appenders, on Polygon's that are in no ScadPolygon. *)
InitPolygon ==
    Init /\ polygons = <<>> /\ convexity = -1 /\ points = [p \in PolygonIds |-> <<>>]

NextPolygon ==
    \/ \E p \in PolygonIds, point \in PointInputs : point_append(p, point, MaxArcPoints)
    \/ \E p \in PolygonIds, a \in ArcInputs : arc_append(p, a, MaxArcPoints)
    \/ \E p \in PolygonIds, a \in CircleInputs : circle_append(p, a, MaxArcPoints)
    \/ \E p \in PolygonIds, a \in RectangleInputs :
          rotated_rectangle_append(p, a, MaxArcPoints)
    \/ \E p \in PolygonIds, a \in SlotInputs : slot_append(p, a, MaxArcPoints)

SpecPolygon == InitPolygon /\ [][NextPolygon]_vars

(* Element access, on Polygon's and a ScadPolygon of every length. *)
InitAccess == Init /\ points = [p \in PolygonIds |-> <<>>]

NextAccess ==
    \/ \E p \in PolygonIds, point \in PointInputs : point_append(p, point, MaxPoints)
    \/ \E p \in PolygonIds : append(p)
    \/ \E p \in PolygonIds, debug \in BOOLEAN :
          \E index \in IndexInputs(points[p]) : Polygon_getitem(p, index, debug)
    \/ \E debug \in BOOLEAN :
          \E index \in IndexInputs(polygons) : ScadPolygon_getitem(index, debug)
    \/ \E ps \in ExtendInputs : extend(ps)
    \/ ScadPolygon_len

SpecAccess == InitAccess /\ [][NextAccess]_vars

(* One Polygon in a ScadPolygon: every appender, element access and the    *)
(* render.                                                                 *)
InitContour == InitAccess /\ polygons = <<1>>

NextContour ==
    \/ \E point \in PointInputs : point_append(1, point, MaxPoints)
    \/ \E a \in {b \in ArcInputs : b.start_angle = 0 /\ b.points_count <= 2} :
          arc_append(1, a, MaxPoints)
    \/ \E a \in {b \in CircleInputs : b.points_count \in {0, 3}} :
          circle_append(1, a, MaxPoints)
    \/ \E a \in SquareInputs : rotated_rectangle_append(1, a, MaxPoints)
    \/ \E a \in {b \in SlotInputs : b.end_point1 = P(0, 0) /\ b.points_count \in {1, 2}} :
          slot_append(1, a, MaxPoints)
    \/ \E debug \in BOOLEAN :
          \E index \in IndexInputs(points[1]) : Polygon_getitem(1, index, debug)
    \/ file_write

SpecContour == InitContour /\ [][NextContour]_vars

(* Slots: one Polygon, slot_append along the axes and the diagonals, from  *)
(* end points at several distances about the same middle.                  *)

\* [end_point1, end_point2] of the slots
SlotEndInputs ==
    { <<P(0, 0), P(Mm(4), 0)>>, <<P(Mm(1), 0), P(Mm(3), 0)>>,
      <<P(Mm(4), 0), P(0, 0)>>,
      <<P(Mm(2), Mm(2)), P(0, 0)>>, <<P(Mm(3), Mm(3)), P(-Mm(1), -Mm(1))>>,
      <<P(0, Mm(2)), P(Mm(2), 0)>>,
      <<P(Mm(1), -Mm(1)), P(Mm(1), Mm(1))>>, <<P(Mm(1), 0), P(Mm(1), 0)>> }

\* [end_point1, end_point2, slot_length, slot_width, points_count]
SlotShapeInputs ==
    { [end_point1 |-> e[1], end_point2 |-> e[2], slot_length |-> Mm(6),
       slot_width |-> Mm(2), points_count |-> n] :
        e \in SlotEndInputs, n \in 0..4 }

InitSlot == InitContour

NextSlot ==
    \/ \E point \in PointInputs : point_append(1, point, MaxSlotPoints)
    \/ \E a \in SlotShapeInputs : slot_append(1, a, MaxSlotPoints)

SpecSlot == InitSlot /\ [][NextSlot]_vars

(* Long Polygon's: "hole" is constructed with a points list that ends      *)
(* short of a full line of indices, points are appended one at a time and  *)
(* the ScadPolygon, which may hold a Polygon twice, is written.            *)

\* the lengths of the points list "hole" is constructed with
LineSeedLens == {indices_slice_size - 2, 2 * indices_slice_size - 2}
\* the points list of n points
LineSeedPoints(n) == [k \in 1..n |-> P(-Mm(k), Mm(k) + 4)]
\* the polygons lists the ScadPolygon is constructed with
LineSetInputs == { <<2>>, <<1, 2>>, <<2, 1>>, <<2, 2>>, <<1, 2, 1>> }
\* the length "hole" was constructed with
LineSeedLen ==
    IF Len(points[2]) >= 2 * indices_slice_size - 2
    THEN 2 * indices_slice_size - 2 ELSE indices_slice_size - 2

InitLines ==
    /\ NoObjects
    /\ \E n \in LineSeedLens :
          points = [p \in PolygonIds |-> IF p = 2 THEN LineSeedPoints(n) ELSE <<>>]
    /\ polygons \in LineSetInputs
    /\ convexity = -1
    /\ scad_lines = <<>>
    /\ rendered = "never"
    /\ names = DemoNames
    /\ repeat = "none"
    /\ late = FALSE
    /\ last = [op |-> "init", poly |-> 0, args |-> NoArgs, before |-> <<>>,
               raised |-> "", value |-> <<>>]

NextLines ==
    \/ \E p \in PolygonIds, point \in PointInputs :
          point_append(p, point, LineSeedLen + MaxLinePoints)
    \/ file_write

SpecLines == InitLines /\ [][NextLines]_vars

-----------------------------------------------------------------------------
(* P objects by reference: the methods of P *)

PointMethods ==
    {"__add__", "__sub__", "__mul__", "__rmul__", "__truediv__", "rotate2d",
     "y_mirror", "distance", "__str__"}
\* the methods whose argument is a P, and the methods that return a P
PointArgMethods == {"__add__", "__sub__", "distance"}
PointYieldingMethods == PointMethods \ {"distance", "__str__"}

\* the P objects of the caller, in the order it constructs them
PointObjectInputs == << P3(300, -400, 200), P3(0, 500, -100) >>
\* the scale factors, the whole number divisors and the angles
ScaleInputs == { Mm(2) }
DivisorInputs == { 2 }
AngleInputs == { pi \div 2 }

\* the arguments a method is called with: a reference, a number, or none (0)
ArgInputs(method) ==
    IF method \in PointArgMethods THEN 1..Len(heap)
    ELSE IF method \in {"__mul__", "__rmul__"} THEN ScaleInputs
    ELSE IF method = "__truediv__" THEN DivisorInputs
    ELSE IF method = "rotate2d" THEN AngleInputs
    ELSE {0}

\* what the method returns: the coordinates of the P it constructs, the
\* distance, or the text
P_return(method, self, arg) ==
    CASE method = "__add__" -> P_add(heap[self], heap[arg])
      [] method = "__sub__" -> P_sub(heap[self], heap[arg])
      [] method = "__mul__" -> P_mul(heap[self], arg)
      [] method = "__rmul__" -> P_rmul(heap[self], arg)
      [] method = "__truediv__" -> P_truediv(heap[self], arg)
      [] method = "rotate2d" -> rotate2d(heap[self], arg)
      [] method = "y_mirror" -> y_mirror(heap[self])
      [] method = "distance" -> distance(heap[self], heap[arg])
      [] method = "__str__" -> P_str(heap[self])

\* P_call storing the result in self and returning self
P_call_in_place(method, self, arg) ==
    LET result == P_return(method, self, arg)
        yields_point == method \in PointYieldingMethods
    IN  /\ heap' = IF yields_point THEN [heap EXCEPT ![self] = result] ELSE heap
        /\ last' = [op |-> method, poly |-> 0, args |-> [self |-> self, arg |-> arg],
                    before |-> heap, raised |-> "",
                    value |-> IF yields_point THEN <<self>> ELSE <<result>>]
        /\ UNCHANGED <<lists, self_points, seed, own, made>>
        /\ UNCHANGED polygon_vars
        /\ UNCHANGED set_vars

\* A call of a method of the P object self.  A method that returns a P
\* constructs a new object with P(...).
P_call(method, self, arg) ==
    LET result == P_return(method, self, arg)
        yields_point == method \in PointYieldingMethods
    IN  /\ yields_point => Len(heap) < MaxObjects
        /\ heap' = IF yields_point THEN Append(heap, result) ELSE heap
        /\ made' = IF yields_point
                   THEN Append(made, [op |-> method, self |-> self, arg |-> arg])
                   ELSE made
        /\ last' = [op |-> method, poly |-> 0, args |-> [self |-> self, arg |-> arg],
                    before |-> heap, raised |-> "",
                    value |-> IF yields_point THEN <<Len(heap) + 1>> ELSE <<result>>]
        /\ UNCHANGED <<lists, self_points, seed, own>>
        /\ UNCHANGED polygon_vars
        /\ UNCHANGED set_vars

\* the caller's P objects: made by P(x, y, z)
ByCaller == [op |-> "P", self |-> 0, arg |-> 0]

\* No Polygon by value, no ScadPolygon contents, nothing written
NoPolygons ==
    /\ points = [p \in PolygonIds |-> <<>>]
    /\ polygons = <<>>
    /\ convexity = -1
    /\ scad_lines = <<>>
    /\ rendered = "never"
    /\ names = DemoNames
    /\ repeat = "none"
    /\ late = FALSE
    /\ last = [op |-> "init", poly |-> 0, args |-> NoArgs, before |-> <<>>,
               raised |-> "", value |-> <<>>]

(* The methods of P, on the first or on both P objects of the caller and   *)
(* on the objects the methods return.                                      *)
InitPoint ==
    /\ NoPolygons
    /\ heap \in { SubSeq(PointObjectInputs, 1, n) : n \in 1..Len(PointObjectInputs) }
    /\ made = [r \in 1..Len(heap) |-> ByCaller]
    /\ lists = [l \in ListIds |-> <<>>]
    /\ self_points = [g \in PolygonObjects |-> "none"]
    /\ seed = [g \in PolygonObjects |-> [refs |-> <<>>, points |-> <<>>]]
    /\ own = [g \in PolygonObjects |-> <<>>]
    /\ NoSet

NextPoint ==
    \E method \in PointMethods :
        \E self \in 1..Len(heap) :
            \E arg \in ArgInputs(method) : P_call(method, self, arg)

SpecPoint == InitPoint /\ [][NextPoint]_vars

-----------------------------------------------------------------------------
(* Polygon objects by reference: __init__, the appenders, and what the     *)
(* caller can do to the list and to the P objects it passed                *)

\* the list the caller passes to Polygon.__init__: both of its P objects
CallerList == [r \in 1..Len(PointObjectInputs) |-> r]
\* the value the caller assigns to the x of a P object
SetInputs == { Mm(9) }
\* the circle appended to a Polygon object: [center, diameter, points_count]
SeedCircleInputs ==
    { [center |-> P(0, Mm(1)), diameter |-> Mm(4), points_count |-> c] : c \in {1, 2} }

\* the list object self.points of Polygon g refers to, and its contents
PointsOf(g) == lists[self_points[g]]
\* the coordinates of the P objects of a list of references
Deref(refs) == [i \in 1..Len(refs) |-> heap[refs[i]]]

\* Polygon.__init__ keeping the list it is passed: self.points = points
Polygon_init_shared(g, points_arg) ==
    /\ self_points[g] = "none"
    /\ self_points' = [self_points EXCEPT ![g] = points_arg]
    /\ seed' = [seed EXCEPT ![g] = [refs |-> lists[points_arg],
                                    points |-> Deref(lists[points_arg])]]
    /\ last' = [op |-> "Polygon.__init__", poly |-> 0,
                args |-> [self |-> g, points |-> points_arg],
                before |-> lists[points_arg], raised |-> "", value |-> <<>>]
    /\ UNCHANGED <<heap, lists, own, made>>
    /\ UNCHANGED polygon_vars
    /\ UNCHANGED set_vars

\* Polygon.__init__: points_arg is the list passed as points, "default" when
\* the argument is left out; self.points = points[:] is a new list with the
\* same references
Polygon_init(g, points_arg) ==
    /\ self_points[g] = "none"
    /\ lists' = [lists EXCEPT ![g] = lists[points_arg]]
    /\ self_points' = [self_points EXCEPT ![g] = g]
    /\ seed' = [seed EXCEPT ![g] = [refs |-> lists[points_arg],
                                    points |-> Deref(lists[points_arg])]]
    /\ last' = [op |-> "Polygon.__init__", poly |-> 0,
                args |-> [self |-> g, points |-> points_arg],
                before |-> lists[points_arg], raised |-> "", value |-> <<>>]
    /\ UNCHANGED <<heap, own, made>>
    /\ UNCHANGED polygon_vars
    /\ UNCHANGED set_vars

\* Polygon.point_append on Polygon object g with the P object ref
Polygon_point_append(g, ref) ==
    /\ self_points[g] /= "none"
    /\ Len(own[g]) < MaxAppends
    /\ lists' = [lists EXCEPT ![self_points[g]] = Append(@, ref)]
    /\ own' = [own EXCEPT ![g] = Append(@, ref)]
    /\ last' = [op |-> "Polygon.point_append", poly |-> 0,
                args |-> [self |-> g, point |-> ref],
                before |-> PointsOf(g), raised |-> "", value |-> <<>>]
    /\ UNCHANGED <<heap, self_points, seed, made>>
    /\ UNCHANGED polygon_vars
    /\ UNCHANGED set_vars

\* Polygon.circle_append on Polygon object g: each point is a new P object
Polygon_circle_append(g, a) ==
    LET appended == circle_append_to(<<>>, a.center, a.diameter, a.points_count).points
        refs == [i \in 1..Len(appended) |-> Len(heap) + i]
    IN  /\ self_points[g] /= "none"
        /\ Len(own[g]) < MaxAppends
        /\ Len(heap) + Len(appended) <= MaxObjects
        /\ heap' = heap \o appended
        /\ made' = made \o [i \in 1..Len(appended) |->
                                [op |-> "circle_append", self |-> 0, arg |-> 0]]
        /\ lists' = [lists EXCEPT ![self_points[g]] = @ \o refs]
        /\ own' = [own EXCEPT ![g] = @ \o refs]
        /\ last' = [op |-> "Polygon.circle_append", poly |-> 0,
                    args |-> [self |-> g, circle |-> a],
                    before |-> PointsOf(g), raised |-> "", value |-> <<>>]
        /\ UNCHANGED <<self_points, seed>>
        /\ UNCHANGED polygon_vars
        /\ UNCHANGED set_vars

\* the caller appends one of its P objects to the list it passed
list_append(ref) ==
    /\ Len(lists["caller"]) = Len(CallerList)
    /\ lists' = [lists EXCEPT !["caller"] = Append(@, ref)]
    /\ last' = [op |-> "list.append", poly |-> 0, args |-> [point |-> ref],
                before |-> lists["caller"], raised |-> "", value |-> <<>>]
    /\ UNCHANGED <<heap, self_points, seed, own, made>>
    /\ UNCHANGED polygon_vars
    /\ UNCHANGED set_vars

\* the caller deletes the first element of the list it passed
list_delete ==
    /\ Len(lists["caller"]) >= 2
    /\ lists' = [lists EXCEPT !["caller"] = Tail(@)]
    /\ last' = [op |-> "list.__delitem__", poly |-> 0, args |-> NoArgs,
                before |-> lists["caller"], raised |-> "", value |-> <<>>]
    /\ UNCHANGED <<heap, self_points, seed, own, made>>
    /\ UNCHANGED polygon_vars
    /\ UNCHANGED set_vars

\* the caller assigns to the x of one of its P objects: point.x = x
P_setattr(ref, x) ==
    /\ heap[ref].x /= x
    /\ heap' = [heap EXCEPT ![ref].x = x]
    /\ last' = [op |-> "P.x =", poly |-> 0, args |-> [point |-> ref, x |-> x],
                before |-> heap, raised |-> "", value |-> <<>>]
    /\ UNCHANGED <<lists, self_points, seed, own, made>>
    /\ UNCHANGED polygon_vars
    /\ UNCHANGED set_vars

(* Two Polygon objects constructed from the caller's list or with the      *)
(* default argument, appender calls on them in any order, and the caller   *)
(* changing its list and its P objects.                                    *)
InitSeed ==
    /\ NoPolygons
    /\ heap = PointObjectInputs
    /\ made = [r \in 1..Len(heap) |-> ByCaller]
    /\ lists = [l \in ListIds |-> IF l = "caller" THEN CallerList ELSE <<>>]
    /\ self_points = [g \in PolygonObjects |-> "none"]
    /\ seed = [g \in PolygonObjects |-> [refs |-> <<>>, points |-> <<>>]]
    /\ own = [g \in PolygonObjects |-> <<>>]
    /\ NoSet

NextSeed ==
    \/ \E g \in PolygonObjects, points_arg \in {"default", "caller"} :
          Polygon_init(g, points_arg)
    \/ \E g \in PolygonObjects : Polygon_point_append(g, 1)
    \/ \E g \in PolygonObjects, a \in SeedCircleInputs : Polygon_circle_append(g, a)
    \/ list_append(1)
    \/ list_delete
    \/ \E x \in SetInputs : P_setattr(1, x)

SpecSeed == InitSeed /\ [][NextSeed]_vars

-----------------------------------------------------------------------------
(* The ScadPolygon object by reference: __init__, append, extend, and what *)
(* the caller can do to the list it passed                                 *)

\* the lists of Polygon objects the caller constructs the ScadPolygon with
SetListInputs == { <<>>, <<"a">>, <<"a", "b">> }
\* the lists of Polygon objects extend is called with
SetExtendInputs == { <<>>, <<"b">>, <<"b", "a">> }

\* the list object self.polygons refers to, and its contents
PolygonsOf == polygon_lists[self_polygons]

\* ScadPolygon.__init__ keeping the list it is passed: self.polygons = polygons
ScadPolygon_init_shared(polygons_arg) ==
    /\ self_polygons = "none"
    /\ self_polygons' = polygons_arg
    /\ kept' = [given |-> polygon_lists[polygons_arg], added |-> <<>>]
    /\ last' = [op |-> "ScadPolygon.__init__", poly |-> 0,
                args |-> [polygons |-> polygons_arg],
                before |-> polygon_lists[polygons_arg], raised |-> "", value |-> <<>>]
    /\ UNCHANGED polygon_lists
    /\ UNCHANGED <<heap, lists, self_points, seed, own, made>>
    /\ UNCHANGED polygon_vars

\* ScadPolygon.__init__: self.polygons = polygons[:] is a new list with the
\* same references
ScadPolygon_init(polygons_arg) ==
    /\ self_polygons = "none"
    /\ polygon_lists' = [polygon_lists EXCEPT !["set"] = polygon_lists[polygons_arg]]
    /\ self_polygons' = "set"
    /\ kept' = [given |-> polygon_lists[polygons_arg], added |-> <<>>]
    /\ last' = [op |-> "ScadPolygon.__init__", poly |-> 0,
                args |-> [polygons |-> polygons_arg],
                before |-> polygon_lists[polygons_arg], raised |-> "", value |-> <<>>]
    /\ UNCHANGED <<heap, lists, self_points, seed, own, made>>
    /\ UNCHANGED polygon_vars

\* ScadPolygon.append on the ScadPolygon object with the Polygon object g;
\* before is the caller's list as it was
ScadPolygon_append(g) ==
    /\ self_polygons /= "none"
    /\ Len(kept.added) < MaxPolygons
    /\ polygon_lists' = [polygon_lists EXCEPT ![self_polygons] = Append(@, g)]
    /\ kept' = [kept EXCEPT !.added = Append(@, g)]
    /\ last' = [op |-> "ScadPolygon.append", poly |-> 0, args |-> [polygon |-> g],
                before |-> polygon_lists["caller"], raised |-> "", value |-> <<>>]
    /\ UNCHANGED self_polygons
    /\ UNCHANGED <<heap, lists, self_points, seed, own, made>>
    /\ UNCHANGED polygon_vars

\* ScadPolygon.extend on the ScadPolygon object with a list of Polygon
\* objects; before is the caller's list as it was
ScadPolygon_extend(additional_polygons) ==
    /\ self_polygons /= "none"
    /\ Len(kept.added) + Len(additional_polygons) <= MaxPolygons
    /\ polygon_lists' = [polygon_lists EXCEPT
                             ![self_polygons] = @ \o additional_polygons]
    /\ kept' = [kept EXCEPT !.added = @ \o additional_polygons]
    /\ last' = [op |-> "ScadPolygon.extend", poly |-> 0,
                args |-> [additional_polygons |-> additional_polygons],
                before |-> polygon_lists["caller"], raised |-> "", value |-> <<>>]
    /\ UNCHANGED self_polygons
    /\ UNCHANGED <<heap, lists, self_points, seed, own, made>>
    /\ UNCHANGED polygon_vars

\* the caller appends a Polygon object to the list it passed
polygons_list_append(g) ==
    /\ self_polygons /= "none"
    /\ Len(polygon_lists["caller"]) <= Len(kept.given)
    /\ polygon_lists' = [polygon_lists EXCEPT !["caller"] = Append(@, g)]
    /\ last' = [op |-> "polygons.append", poly |-> 0, args |-> [polygon |-> g],
                before |-> polygon_lists["caller"], raised |-> "", value |-> <<>>]
    /\ UNCHANGED <<self_polygons, kept>>
    /\ UNCHANGED <<heap, lists, self_points, seed, own, made>>
    /\ UNCHANGED polygon_vars

\* the caller deletes the first element of the list it passed
polygons_list_delete ==
    /\ self_polygons /= "none"
    /\ Len(polygon_lists["caller"]) >= 1
    /\ Len(polygon_lists["caller"]) >= Len(kept.given)
    /\ polygon_lists' = [polygon_lists EXCEPT !["caller"] = Tail(@)]
    /\ last' = [op |-> "polygons.__delitem__", poly |-> 0, args |-> NoArgs,
                before |-> polygon_lists["caller"], raised |-> "", value |-> <<>>]
    /\ UNCHANGED <<self_polygons, kept>>
    /\ UNCHANGED <<heap, lists, self_points, seed, own, made>>
    /\ UNCHANGED polygon_vars

(* Two Polygon objects constructed with the default argument, a ScadPolygon *)
(* object constructed from the caller's list of them, append and extend on *)
(* it, point_append on the Polygon objects, and the caller changing its    *)
(* list.                                                                   *)
InitSet ==
    /\ NoPolygons
    /\ heap = PointObjectInputs
    /\ made = [r \in 1..Len(heap) |-> ByCaller]
    /\ lists = [l \in ListIds |-> <<>>]
    /\ self_points = [g \in PolygonObjects |-> g]
    /\ seed = [g \in PolygonObjects |-> [refs |-> <<>>, points |-> <<>>]]
    /\ own = [g \in PolygonObjects |-> <<>>]
    /\ \E given \in SetListInputs :
          polygon_lists = [l \in PolygonListIds |-> IF l = "caller" THEN given ELSE <<>>]
    /\ self_polygons = "none"
    /\ kept = [given |-> <<>>, added |-> <<>>]

NextSet ==
    \/ ScadPolygon_init("caller")
    \/ \E g \in PolygonObjects : ScadPolygon_append(g)
    \/ \E gs \in SetExtendInputs \cup {polygon_lists["caller"]} : ScadPolygon_extend(gs)
    \/ \E g \in PolygonObjects : polygons_list_append(g)
    \/ polygons_list_delete
    \/ \E g \in PolygonObjects : Polygon_point_append(g, 1)

SpecSet == InitSet /\ [][NextSet]_vars

-----------------------------------------------------------------------------
(* Romi: the methods that make the outline, the battery holes and the      *)
(* ScadPolygon of the base, element access on what was made, and the       *)
(* file_write of main()                                                    *)

\* the indices element access is tried with: about the ends of the outline
\* and of the ScadPolygon
RomiIndexInputs == {-119, -118, -47, -46, -2, -1, 0, 1, 2, 45, 46, 117, 118}

\* Romi.base_outline_polygon_get: value holds the Polygon it returns
base_outline_polygon_get(debug) ==
    \E r \in { base_outline_polygon_get_value(debug) } :
        /\ last' = [op |-> "base_outline_polygon_get", poly |-> 0,
                    args |-> [debug |-> debug], before |-> <<>>, raised |-> r.raised,
                    value |-> IF r.raised = "" THEN <<r.polygon>> ELSE <<>>]
        /\ UNCHANGED polygon_vars
        /\ UNCHANGED object_vars

\* Romi.battery_polygons_get: value is the list of Polygon's it returns
battery_polygons_get ==
    /\ last' = [op |-> "battery_polygons_get", poly |-> 0, args |-> NoArgs,
                before |-> <<>>, raised |-> "", value |-> battery_polygons_get_value]
    /\ UNCHANGED polygon_vars
    /\ UNCHANGED object_vars

\* Romi.base_scad_polygon_generate: the ScadPolygon is the one it returns,
\* the Polygon at position i of it being the Polygon 2 + i
base_scad_polygon_generate(debug) ==
    /\ polygons = <<>>
    /\ \E r \in { base_scad_polygon_generate_value(debug) } :
        \E made_ids \in { 3..(2 + Len(r.polygons)) } :
        /\ IF r.raised /= ""
           THEN UNCHANGED <<points, names, polygons, convexity>>
           ELSE /\ points' = [p \in PolygonIds \cup made_ids |->
                                 IF p \in made_ids THEN r.polygons[p - 2].points
                                 ELSE points[p]]
                /\ names' = [p \in PolygonIds \cup made_ids |->
                                IF p \in made_ids THEN r.polygons[p - 2].name
                                ELSE names[p]]
                /\ polygons' = [i \in 1..Len(r.polygons) |-> 2 + i]
                /\ convexity' = r.convexity
        /\ last' = [op |-> "base_scad_polygon_generate", poly |-> 0,
                    args |-> [debug |-> debug], before |-> <<>>,
                    raised |-> r.raised, value |-> <<>>]
        /\ UNCHANGED <<scad_lines, rendered, repeat, late>>
        /\ UNCHANGED object_vars

InitRomi ==
    /\ NoObjects
    /\ points = [p \in PolygonIds |-> <<>>]
    /\ polygons = <<>>
    /\ convexity = -1
    /\ scad_lines = <<>>
    /\ rendered = "never"
    /\ names = DemoNames
    /\ repeat = "none"
    /\ late = FALSE
    /\ last = [op |-> "init", poly |-> 0, args |-> NoArgs, before |-> <<>>,
               raised |-> "", value |-> <<>>]

NextRomi ==
    \/ \E debug \in BOOLEAN : base_outline_polygon_get(debug)
    \/ battery_polygons_get
    \/ \E debug \in BOOLEAN : base_scad_polygon_generate(debug)
    \/ \E debug \in BOOLEAN, index \in RomiIndexInputs :
          polygons /= <<>> /\ Polygon_getitem(polygons[1], index, debug)
    \/ \E debug \in BOOLEAN, index \in RomiIndexInputs :
          polygons /= <<>> /\ ScadPolygon_getitem(index, debug)
    \/ polygons /= <<>> /\ ScadPolygon_len
    \/ polygons /= <<>> /\ file_write

SpecRomi == InitRomi /\ [][NextRomi]_vars

-----------------------------------------------------------------------------
(* The coordinates as text: in the points array and in str(point) *)

\* P objects with coordinates that round to zero from below, that round
\* away from zero, and that lie halfway between two thousandths (0.0625 and
\* 0.1875 are floats that do)
TextObjectInputs ==
    << P3(-1, Mm(2), -4), P3(-6, 625, 0), P3(12344, -12346, 1875) >>

InitText ==
    /\ points = [p \in PolygonIds |-> <<>>]
    /\ polygons = <<1>>
    /\ convexity = -1
    /\ scad_lines = <<>>
    /\ rendered = "never"
    /\ names = DemoNames
    /\ repeat = "none"
    /\ late = FALSE
    /\ last = [op |-> "init", poly |-> 0, args |-> NoArgs, before |-> <<>>,
               raised |-> "", value |-> <<>>]
    /\ heap = TextObjectInputs
    /\ made = [r \in 1..Len(heap) |-> ByCaller]
    /\ lists = [l \in ListIds |-> <<>>]
    /\ self_points = [g \in PolygonObjects |-> "none"]
    /\ seed = [g \in PolygonObjects |-> [refs |-> <<>>, points |-> <<>>]]
    /\ own = [g \in PolygonObjects |-> <<>>]
    /\ NoSet

NextText ==
    \/ \E ref \in 1..Len(heap) : point_append(1, heap[ref], MaxPoints)
    \/ file_write
    \/ \E ref \in 1..Len(heap) : P_call("__str__", ref, 0)

SpecText == InitText /\ [][NextText]_vars

-----------------------------------------------------------------------------
(* Reading the written lines back *)

\* the position of the one line of the given kind
LineOf(lines, kind) == CHOOSE i \in 1..Len(lines) : lines[i].kind = kind

\* the lines of the points array and of the paths array
PointsSection(lines) ==
    SubSeq(lines, LineOf(lines, "polygon(points = [") + 1,
                  LineOf(lines, " ], paths = [") - 1)
PathsSection(lines) ==
    SubSeq(lines, LineOf(lines, " ], paths = [") + 1, LineOf(lines, "end") - 1)

RECURSIVE GroupsFrom(_, _)
\* a section cut at its "// Polygon" comment lines: one group of lines per
\* Polygon, the comment itself left out
GroupsFrom(section, acc) ==
    IF section = <<>> THEN acc
    ELSE IF Head(section).kind = "polygon"
    THEN GroupsFrom(Tail(section), Append(acc, <<>>))
    ELSE GroupsFrom(Tail(section),
                    [acc EXCEPT ![Len(acc)] = Append(@, Head(section))])
Groups(section) == GroupsFrom(section, <<>>)

\* the point texts of some lines of the points array, in order
PointTexts(group) == Concat([i \in 1..Len(group) |-> group[i].slice_text])
\* the indices of some lines of the paths array, in order
IndexTexts(group) == Concat([i \in 1..Len(group) |-> group[i].line_text])

EmittedPoints == PointTexts(SelectSeq(PointsSection(scad_lines),
                                      LAMBDA l : l.kind = "points"))
EmittedIndices == IndexTexts(SelectSeq(PathsSection(scad_lines),
                                       LAMBDA l : l.kind = "indices"))
\* the indices written for the Polygon at position i of the ScadPolygon
EmittedPath(i) == IndexTexts(Groups(PathsSection(scad_lines))[i])

\* the lengths of the Polygon's of the ScadPolygon, and their sums
ContourLen(i) == Len(points[polygons[i]])
RECURSIVE LenBefore(_)
LenBefore(i) == IF i <= 1 THEN 0 ELSE LenBefore(i - 1) + ContourLen(i - 1)
TotalLen == LenBefore(Len(polygons) + 1)

\* a, a + 1, ..., a + n - 1
Range(a, n) == [k \in 1..n |-> a + k - 1]

\* the latest file_write wrote the ScadPolygon as it is now
Written == rendered = "clean"

-----------------------------------------------------------------------------
(* C1: a written ScadPolygon with contours of lengths l0..lk has sum(li)   *)
(* points in its points array; the indices written for contour i are       *)
(* sum_{j<i} lj .. sum_{j<=i} lj - 1 ascending; all indices written are    *)
(* 0 .. sum(li) - 1, each once.                                            *)
C1_Flattening ==
    Written =>
        /\ Len(EmittedPoints) = TotalLen
        /\ Len(Groups(PathsSection(scad_lines))) = Len(polygons)
        /\ \A i \in 1..Len(polygons) :
               EmittedPath(i) = Range(LenBefore(i), ContourLen(i))
        /\ EmittedIndices = Range(0, TotalLen)

C1_Witness ==
    /\ Written
    /\ Len(polygons) = 2
    /\ ContourLen(1) > indices_slice_size
    /\ ContourLen(2) >= 2
    /\ EmittedPath(2) = Range(ContourLen(1), ContourLen(2))

(* C2: the paths array of a written ScadPolygon holds one bracketed index  *)
(* list per contour, in contour order, whatever the contour's length, zero *)
(* included.                                                               *)
Opening(section) == SelectSeq(section, LAMBDA l : l.kind = "indices" /\ l.front_text = "  [")
Closing(section) == SelectSeq(section, LAMBDA l : l.kind = "indices" /\ l.end_text = "],")

C2_OnePathPerContour ==
    Written =>
        /\ Len(Opening(PathsSection(scad_lines))) = Len(polygons)
        /\ Len(Closing(PathsSection(scad_lines))) = Len(polygons)
        /\ \A i \in 1..Len(polygons) :
               LET group == Groups(PathsSection(scad_lines))[i]
               IN  /\ Len(Opening(group)) = 1
                   /\ Len(Closing(group)) = 1

(* C3: late binding.  What is written is the contents the contours have at *)
(* the file_write, points appended after a contour entered the ScadPolygon *)
(* included.                                                               *)
PointText(point) == << NormalizeZero(Format3(point.x)), NormalizeZero(Format3(point.y)) >>
CurrentPointTexts ==
    Concat([i \in 1..Len(polygons) |->
               [k \in 1..ContourLen(i) |-> PointText(points[polygons[i]][k])]])

C3_LateBinding ==
    Written =>
        /\ EmittedPoints = CurrentPointTexts
        /\ Len(EmittedIndices) = TotalLen

C3_Witness ==
    /\ Written
    /\ late
    /\ last.op = "file_write"
    /\ TotalLen >= 1
    /\ EmittedPoints = CurrentPointTexts

(* C4: two file_write's of a ScadPolygon with no append between them write *)
(* the same lines.                                                         *)
C4_Idempotent == repeat /= "differs"

C4_Witness ==
    /\ repeat = "same"
    /\ TotalLen >= 1
    /\ Len(scad_lines) > 0

-----------------------------------------------------------------------------
(* The appended points of the latest appender call *)

\* the points the latest call appended to its Polygon
NewPoints == SubSeq(points[last.poly], Len(last.before) + 1, Len(points[last.poly]))
\* the latest call left what the Polygon held in place
KeptBefore == SubSeq(points[last.poly], 1, Len(last.before)) = last.before

\* the point at the given angle on the circle of the given radius about center
OnCircleAt(center, radius, angle) ==
    P(center.x + FMul(radius, cos(angle)), center.y + FMul(radius, sin(angle)))

\* point is on the circle of the given radius about center
OnCircle(point, center, radius) ==
    \E angle \in 0..(2 * pi - 1) : point = OnCircleAt(center, radius, angle)

(* C5: for count >= 2, arc_append makes the Polygon exactly count points   *)
(* longer, after the points it held; the k-th new point, k = 0..count-1,   *)
(* is at angle a0 + k*(a1-a0)/(count-1) on the circle, the first at a0 and *)
(* the last at a1.                                                         *)
C5_ArcAppend ==
    (last.op = "arc_append" /\ last.args.points_count >= 2) =>
        LET a == last.args
            n == a.points_count
        IN  /\ last.raised = ""
            /\ KeptBefore
            /\ Len(NewPoints) = n
            /\ \A k \in 0..(n - 1) :
                   /\ (k * (a.end_angle - a.start_angle)) % (n - 1) = 0
                   /\ NewPoints[k + 1] =
                          OnCircleAt(a.center, a.radius,
                                     a.start_angle
                                       + (k * (a.end_angle - a.start_angle)) \div (n - 1))
            /\ NewPoints[1] = OnCircleAt(a.center, a.radius, a.start_angle)
            /\ NewPoints[n] = OnCircleAt(a.center, a.radius, a.end_angle)

C5_Witness ==
    /\ last.op = "arc_append"
    /\ last.args.points_count >= 3
    /\ last.args.end_angle < last.args.start_angle
    /\ Len(last.before) >= 1
    /\ Len(points[last.poly]) = Len(last.before) + last.args.points_count

(* C6: for count >= 1, circle_append makes the Polygon exactly count       *)
(* points longer; the first new point is center + (diameter/2, 0), the     *)
(* k-th is at angle k*2*pi/count, and the first point is not repeated at   *)
(* the end.                                                                *)
C6_CircleAppend ==
    (last.op = "circle_append" /\ last.args.points_count >= 1) =>
        LET a == last.args
            n == a.points_count
            radius == RoundDiv(a.diameter, 2)
        IN  /\ last.raised = ""
            /\ KeptBefore
            /\ Len(NewPoints) = n
            /\ NewPoints[1] = P(a.center.x + radius, a.center.y)
            /\ \A k \in 0..(n - 1) :
                   /\ (k * 2 * pi) % n = 0
                   /\ NewPoints[k + 1] = OnCircleAt(a.center, radius, (k * 2 * pi) \div n)
            /\ n >= 2 => NewPoints[n] /= NewPoints[1]

C6_Witness ==
    /\ last.op = "circle_append"
    /\ last.args.points_count >= 3
    /\ Len(last.before) >= 1
    /\ Len(points[last.poly]) = Len(last.before) + last.args.points_count

(* C7: for n >= 2, slot_append makes the Polygon exactly 2n points longer: *)
(* n points of one end cap, then n points of the other.                    *)
C7_SlotAppend ==
    (last.op = "slot_append" /\ last.args.points_count >= 2) =>
        LET a == last.args
            n == a.points_count
            radius == RoundDiv(a.slot_width, 2)
            half == RoundDiv(a.slot_length, 2)
            middle == P_truediv(P_add(a.end_point1, a.end_point2), 2)
            along == atan2(a.end_point1.y - a.end_point2.y,
                           a.end_point1.x - a.end_point2.x)
            capA == OnCircleAt(middle, half, along)
            capB == OnCircleAt(middle, half, along + pi)
            Caps(c1, c2) ==
                /\ \A k \in 1..n : OnCircle(NewPoints[k], c1, radius)
                /\ \A k \in (n + 1)..(2 * n) : OnCircle(NewPoints[k], c2, radius)
        IN  /\ last.raised = ""
            /\ KeptBefore
            /\ Len(NewPoints) = 2 * n
            /\ Caps(capA, capB) \/ Caps(capB, capA)

C7_Witness ==
    /\ last.op = "slot_append"
    /\ last.args.points_count = 3
    /\ last.raised = ""
    /\ Len(points[last.poly]) = Len(last.before) + 6

\* a and b are opposite corners of a rectangle about center: center is their
\* middle, up to the rounding of the coordinates
Opposite(a, b, center) ==
    /\ Abs(a.x + b.x - 2 * center.x) <= 4
    /\ Abs(a.y + b.y - 2 * center.y) <= 4

(* C8: rotated_rectangle_append appends exactly 4 points: the corners      *)
(* (+w/2,+h/2), (+w/2,-h/2), (-w/2,-h/2), (-w/2,+h/2) in this order, each  *)
(* rotated by angle about the origin and then moved by center; two         *)
(* consecutive points are the ends of a side, never of a diagonal.         *)
C8_RotatedRectangle ==
    last.op = "rotated_rectangle_append" =>
        LET a == last.args
            w2 == RoundDiv(a.dx, 2)
            h2 == RoundDiv(a.dy, 2)
            Corner(x, y) == P_add(a.center, rotate2d(P(x, y), a.angle))
        IN  /\ last.raised = ""
            /\ KeptBefore
            /\ NewPoints = << Corner(w2, h2), Corner(w2, -h2),
                              Corner(-w2, -h2), Corner(-w2, h2) >>
            /\ \A k \in 1..4 : ~Opposite(NewPoints[k], NewPoints[(k % 4) + 1], a.center)

C8_Witness ==
    /\ last.op = "rotated_rectangle_append"
    /\ last.args.angle = 10
    /\ last.args.dx /= last.args.dy
    /\ Len(last.before) >= 1
    /\ Len(NewPoints) = 4

(* C9: the ScadPolygon "demo" holding the one Polygon "square", built by   *)
(* rotated_rectangle_append(center=(0,0,0), 10, 10, angle=0), is written   *)
(* with the 4 points [5.000, 5.000], [5.000, -5.000], [-5.000, -5.000],    *)
(* [-5.000, 5.000] in this order and the one path [0, 1, 2, 3].            *)
Plus(milli) == [neg |-> FALSE, milli |-> milli]
Minus(milli) == [neg |-> TRUE, milli |-> milli]

DemoSquareBuilt ==
    /\ last.op = "rotated_rectangle_append"
    /\ last.poly = 1
    /\ last.before = <<>>
    /\ last.args = [center |-> P3(0, 0, 0), dx |-> Mm(10), dy |-> Mm(10), angle |-> 0]
    /\ polygons = <<1>>

DemoSquareWritten ==
    /\ EmittedPoints = << <<Plus(5000), Plus(5000)>>, <<Plus(5000), Minus(5000)>>,
                          <<Minus(5000), Minus(5000)>>, <<Minus(5000), Plus(5000)>> >>
    /\ SelectSeq(PathsSection(scad_lines), LAMBDA l : l.kind = "indices") =
           << [kind |-> "indices", indent |-> 1, front_text |-> "  [",
               line_text |-> <<0, 1, 2, 3>>, end_text |-> "],"] >>

C9_DemoSquare ==
    [][(DemoSquareBuilt /\ last'.op = "file_write") => DemoSquareWritten']_vars

C9_Witness ==
    /\ last.op = "file_write"
    /\ polygons = <<1>>
    /\ points[1] = << P(Mm(5), Mm(5)), P(Mm(5), -Mm(5)),
                      P(-Mm(5), -Mm(5)), P(-Mm(5), Mm(5)) >>
    /\ DemoSquareWritten

(* C10: element access on a Polygon and on a ScadPolygon fails with an     *)
(* IndexError for every index outside [0, length), the negative ones and   *)
(* length itself included, returns the stored element for every index      *)
(* inside, and leaves the container as it was.                             *)
C10_RangeChecked ==
    last.op \in {"Polygon.__getitem__", "ScadPolygon.__getitem__"} =>
        LET index == last.args.index
            container == IF last.op = "Polygon.__getitem__"
                         THEN points[last.poly] ELSE polygons
        IN  /\ container = last.before
            /\ IF 0 <= index /\ index < Len(last.before)
               THEN last.raised = "" /\ last.value = <<last.before[index + 1]>>
               ELSE last.raised = "IndexError"

-----------------------------------------------------------------------------
(* C11: arc_append called with a count below 2 (1, 0 or negative) reports  *)
(* a failure to the caller at that call and leaves the Polygon's points as *)
(* they were.                                                              *)
C11_ArcCountChecked ==
    (last.op = "arc_append" /\ last.args.points_count < 2) =>
        /\ last.raised /= ""
        /\ points[last.poly] = last.before

\* the appender calls, and the number of points each is documented to append
AppenderOps ==
    {"point_append", "arc_append", "circle_append", "rotated_rectangle_append",
     "slot_append"}
Documented ==
    CASE last.op = "point_append" -> 1
      [] last.op = "arc_append" -> last.args.points_count
      [] last.op = "circle_append" -> last.args.points_count
      [] last.op = "rotated_rectangle_append" -> 4
      [] last.op = "slot_append" -> 2 * last.args.points_count

(* C12: every appender call is all-or-nothing: after it the Polygon is     *)
(* longer by exactly the documented number of points (1, count, count, 4,  *)
(* 2n), or the call failed and the Polygon is as it was before the call.   *)
C12_AllOrNothing ==
    last.op \in AppenderOps =>
        \/ /\ KeptBefore
           /\ Len(points[last.poly]) = Len(last.before) + Documented
        \/ /\ last.raised /= ""
           /\ points[last.poly] = last.before

(* C13: a Polygon is append-only.  Over any appender, element access or    *)
(* render call its length does not decrease and every index that was valid *)
(* before the call still holds the same point, which element access        *)
(* returns.                                                                *)
C13_AppendOnly ==
    [][/\ \A p \in PolygonIds :
              /\ Len(points'[p]) >= Len(points[p])
              /\ SubSeq(points'[p], 1, Len(points[p])) = points[p]
       /\ (/\ last'.op = "Polygon.__getitem__"
           /\ 0 <= last'.args.index
           /\ last'.args.index < Len(points[last'.poly])) =>
              last'.value = <<points[last'.poly][last'.args.index + 1]>>]_vars

C13_Witness ==
    /\ rendered = "dirty"
    /\ last.op = "Polygon.__getitem__"
    /\ last.args.index = 0
    /\ Len(points[1]) >= 3
    /\ last.value = <<points[1][1]>>

(* C17: append and extend add at the end and nothing else changes the list *)
(* of contours: after any calls the contours are the constructor's, then   *)
(* every added one in call order and, within one extend, in list order;    *)
(* len is their number and element access at i returns the i-th.           *)
C17_OrderKept ==
    [][/\ last'.op = "append" =>
              polygons' = polygons \o <<last'.args.polygon>>
       /\ last'.op = "extend" =>
              polygons' = polygons \o last'.args.new_polygons
       /\ last'.op \notin {"append", "extend"} => polygons' = polygons
       /\ last'.op = "ScadPolygon.__len__" =>
              last'.value = <<Len(polygons')>>
       /\ (/\ last'.op = "ScadPolygon.__getitem__"
           /\ 0 <= last'.args.index
           /\ last'.args.index < Len(polygons')) =>
              /\ last'.raised = ""
              /\ last'.value = <<polygons'[last'.args.index + 1]>>]_vars

C17_Witness ==
    /\ polygons = <<2, 1>>
    /\ last.op = "ScadPolygon.__getitem__"
    /\ last.args.index = 1
    /\ last.value = <<1>>

\* the "end" line of the written lines
EndLine == scad_lines[LineOf(scad_lines, "end")]

(* C16: the written polygon statement carries the convexity parameter      *)
(* exactly when the ScadPolygon's convexity is a positive integer; for the *)
(* default, zero and negative values it is left out.                       *)
C16_ConvexityWhenPositive ==
    Written => (EndLine.convexity_text /= <<>> <=> convexity > 0)

-----------------------------------------------------------------------------
(* C18: every method of P (add, subtract, scale on either side, divide,    *)
(* rotate2d, y_mirror, distance, text) leaves the x, y and z of every      *)
(* operand as they were, and a method that returns a P returns a new       *)
(* object, distinct from its operands.                                     *)
C18_PointValueSemantics ==
    last.op \in PointMethods =>
        /\ Len(heap) >= Len(last.before)
        /\ SubSeq(heap, 1, Len(last.before)) = last.before
        /\ last.op \in PointYieldingMethods =>
               LET returned == last.value[1]
               IN  /\ returned \in 1..Len(heap)
                   /\ returned \notin 1..Len(last.before)
                   /\ returned /= last.args.self
                   /\ last.op \in PointArgMethods => returned /= last.args.arg

C18_Witness ==
    /\ last.op = "__add__"
    /\ last.args.self = last.args.arg
    /\ last.value = <<Len(heap)>>
    /\ heap[Len(heap)] = P_add(heap[last.args.self], heap[last.args.self])
    /\ heap[Len(heap)] /= heap[last.args.self]

(* C19: y_mirror of the point (x, y, z) returns (-x, y, -z), and y_mirror  *)
(* of that returns a point with the original x, y and z.                   *)
C19_YMirror ==
    \A r \in 1..Len(heap) :
        made[r].op = "y_mirror" =>
            LET s == made[r].self
            IN  /\ heap[r] = P3(-heap[s].x, heap[s].y, -heap[s].z)
                /\ made[s].op = "y_mirror" => heap[r] = heap[made[s].self]

C19_Witness ==
    \E r \in 1..Len(heap) :
        /\ made[r].op = "y_mirror"
        /\ made[made[r].self].op = "y_mirror"
        /\ heap[r].x /= 0
        /\ heap[r].z /= 0
        /\ heap[r] = heap[made[made[r].self].self]

-----------------------------------------------------------------------------
\* Polygon object g has been constructed
Constructed(g) == self_points[g] /= "none"

(* C14: a Polygon owns a copy of the sequence it was constructed with:     *)
(* whatever the caller then adds to or removes from its sequence, or       *)
(* assigns to the coordinates of a P object that was in it, the Polygon    *)
(* keeps the length and the coordinates it was constructed with (plus the  *)
(* points appended to it), also when another Polygon was constructed from  *)
(* the same sequence.                                                      *)
C14_OwnsCopy ==
    \A g \in PolygonObjects :
        Constructed(g) =>
            /\ Len(PointsOf(g)) = Len(seed[g].points) + Len(own[g])
            /\ SubSeq(Deref(PointsOf(g)), 1, Len(seed[g].points)) = seed[g].points

-----------------------------------------------------------------------------
\* the text shows the value v with 3 decimals: its digits are v rounded to
\* thousandths, and it has a minus sign only when those digits are not zero
ShowsValue(text, v) ==
    LET unit == Scale \div 1000
    IN  /\ 2 * Abs(text.milli * unit - Abs(v)) <= unit
        /\ text.neg <=> (v < 0 /\ text.milli /= 0)

\* the points of the ScadPolygon's Polygon's, in order
CurrentPoints == Concat([i \in 1..Len(polygons) |-> points[polygons[i]]])

(* C20: every coordinate is written with 3 decimals, and one that rounds   *)
(* to zero at 3 decimals, from the negative side too, is written "0.000",  *)
(* never "-0.000": in the points array of a written ScadPolygon and in the *)
(* text of a P.                                                            *)
C20_ThreeDecimals ==
    /\ Written =>
           /\ Len(EmittedPoints) = Len(CurrentPoints)
           /\ \A k \in 1..Len(EmittedPoints) :
                  /\ ShowsValue(EmittedPoints[k][1], CurrentPoints[k].x)
                  /\ ShowsValue(EmittedPoints[k][2], CurrentPoints[k].y)
    /\ last.op = "__str__" =>
           LET text == last.value[1]
               point == heap[last.args.self]
           IN  /\ ShowsValue(text.x_text, point.x)
               /\ ShowsValue(text.y_text, point.y)
               /\ ShowsValue(text.z_text, point.z)

C20_Witness ==
    /\ Written
    /\ \E k \in 1..Len(EmittedPoints) :
           CurrentPoints[k].x < 0 /\ EmittedPoints[k][1] = Plus(0)
    /\ \E k \in 1..Len(EmittedPoints) :
           CurrentPoints[k].y < 0 /\ EmittedPoints[k][2] = Minus(1235)
    /\ last.op = "__str__"
    /\ heap[last.args.self].z < 0
    /\ last.value[1].z_text = Plus(0)


-----------------------------------------------------------------------------
(* C22: once the ScadPolygon has been written, no later call changes the   *)
(* number or the order of the Polygon's it holds: an append or extend      *)
(* after a file_write leaves polygons as it was.                           *)
C22_FrozenAfterRender ==
    [][rendered /= "never" => polygons' = polygons]_vars

-----------------------------------------------------------------------------
(* The slot of the latest slot_append call *)

\* the middle of the two end points
SlotMiddle ==
    P_truediv(P_add(last.args.end_point1, last.args.end_point2), 2)
\* the direction of the line from end_point2 to end_point1
SlotToward1 ==
    atan2(last.args.end_point1.y - last.args.end_point2.y,
          last.args.end_point1.x - last.args.end_point2.x)
\* the direction of the line from end_point1 to end_point2
SlotToward2 ==
    atan2(last.args.end_point2.y - last.args.end_point1.y,
          last.args.end_point2.x - last.args.end_point1.x)

\* the side of the slot's centerline a point is on: 1 left of it, -1 right
\* of it (seen along SlotToward1), 0 on it
Side(point) ==
    Sign(FMul(cos(SlotToward1), point.y - SlotMiddle.y)
         - FMul(sin(SlotToward1), point.x - SlotMiddle.x))

(* C21: the 2n points of a slot are one loop of two joined end caps: the   *)
(* last point of the first cap and the first point of the second cap are   *)
(* on the same side of the centerline, the last point of the second cap    *)
(* and the first point of the first cap on the other side, so the two      *)
(* straight sides that join the caps do not cross.                         *)
C21_SlotLoop ==
    (last.op = "slot_append" /\ last.args.points_count >= 2) =>
        LET n == last.args.points_count
        IN  /\ Len(NewPoints) = 2 * n
            /\ Side(NewPoints[n]) /= 0
            /\ Side(NewPoints[n + 1]) = Side(NewPoints[n])
            /\ Side(NewPoints[2 * n]) = -Side(NewPoints[n])
            /\ Side(NewPoints[1]) = -Side(NewPoints[n])
            \* each straight side runs along the centerline
            /\ Side(P_add(SlotMiddle, P_sub(NewPoints[n], NewPoints[n + 1]))) = 0
            /\ Side(P_add(SlotMiddle, P_sub(NewPoints[1], NewPoints[2 * n]))) = 0

C21_Witness ==
    /\ last.op = "slot_append"
    /\ last.args.points_count = 4
    /\ last.args.end_point1 = P(0, Mm(2))
    /\ last.raised = ""
    /\ Len(NewPoints) = 8
    /\ Side(NewPoints[4]) = 1
    /\ Side(NewPoints[5]) = 1
    /\ Side(NewPoints[8]) = -1
    /\ Side(NewPoints[1]) = -1

\* the first points_count new points are on the end cap about the point
\* half a slot_length from the middle in the direction toward, the
\* following ones on the end cap about the point half a slot_length from
\* the middle the other way
CapsAlong(toward) ==
    LET a == last.args
        radius == RoundDiv(a.slot_width, 2)
        half == RoundDiv(a.slot_length, 2)
        first_center == OnCircleAt(SlotMiddle, half, toward)
        second_center == OnCircleAt(SlotMiddle, half, toward + pi)
    IN  \A k \in 1..Len(NewPoints) :
            IF k <= a.points_count
            THEN OnCircle(NewPoints[k], first_center, radius)
            ELSE OnCircle(NewPoints[k], second_center, radius)

\* the call with end points b of the same middle and the same direction as
\* those of the latest slot_append call leaves the same points
SameForEnds(b) ==
    LET a == last.args
        same_middle == P_truediv(P_add(b[1], b[2]), 2) = SlotMiddle
        same_direction == atan2(b[1].y - b[2].y, b[1].x - b[2].x) = SlotToward1
        r == slot_append_to(last.before, b[1], b[2], a.slot_length,
                            a.slot_width, a.points_count)
    IN  (same_middle /\ same_direction) =>
            /\ r.points = points[last.poly]
            /\ r.raised = (last.raised /= "")

-----------------------------------------------------------------------------
(* The lines written for one contour *)

\* the point lines and the index lines written for the Polygon at position
\* i of the ScadPolygon
PointLines(i) == Groups(PointsSection(scad_lines))[i]
IndexLines(i) == Groups(PathsSection(scad_lines))[i]
\* the texts of the points of the Polygon at position i, in its own order
ContourTexts(i) == [k \in 1..ContourLen(i) |-> PointText(points[polygons[i]][k])]

(* C24: in the points array a contour of n points is written as ceil(n/4)  *)
(* point lines, each of 4 points except possibly the last; no line holds   *)
(* points of two contours, and the lines read in order give each point of  *)
(* the contour once, in the contour's order.                               *)
C24_PointLines ==
    Written =>
        /\ Len(Groups(PointsSection(scad_lines))) = Len(polygons)
        /\ \A i \in 1..Len(polygons) :
               LET n == ContourLen(i)
                   group == PointLines(i)
               IN  /\ Len(group) = CeilDiv(n, 4)
                   /\ \A j \in 1..Len(group) :
                          /\ group[j].kind = "points"
                          /\ Len(group[j].slice_text) =
                                 IF j < Len(group) THEN 4 ELSE n - 4 * (j - 1)
                          /\ Len(group[j].slice_text) \in 1..4
                   /\ PointTexts(group) = ContourTexts(i)

C24_Witness ==
    /\ Written
    /\ polygons = <<1, 2>>
    /\ ContourLen(1) = 2
    /\ ContourLen(2) = 2 * indices_slice_size - 1
    /\ Len(PointLines(1)) = 1
    /\ Len(PointLines(2)) = 13
    /\ Len(PointLines(2)[13].slice_text) = 1

(* C25: in the paths array the index list of a contour of n >= 1 points is *)
(* written as ceil(n/25) lines of at most 25 indices; the opening bracket  *)
(* is on the first of them only and the closing bracket on the last only,  *)
(* also when n is a multiple of 25 and when one line carries both.         *)
C25_IndexLines ==
    Written =>
        \A i \in 1..Len(polygons) :
            LET n == ContourLen(i)
                group == IndexLines(i)
            IN  n >= 1 =>
                    /\ Len(group) = CeilDiv(n, 25)
                    /\ \A j \in 1..Len(group) :
                           /\ group[j].kind = "indices"
                           /\ Len(group[j].line_text) \in 1..25
                           /\ (group[j].front_text = "  [") <=> (j = 1)
                           /\ (group[j].front_text = "  ") <=> (j > 1)
                           /\ (group[j].end_text = "],") <=> (j = Len(group))
                           /\ (group[j].end_text = ",") <=> (j < Len(group))

C25_Witness ==
    /\ Written
    /\ \E i \in 1..Len(polygons) :
           /\ ContourLen(i) = 2 * indices_slice_size
           /\ Len(IndexLines(i)) = 2
           /\ IndexLines(i)[2].end_text = "],"
           /\ Len(IndexLines(i)[2].line_text) = indices_slice_size
    /\ \E i \in 1..Len(polygons) :
           /\ ContourLen(i) = 1
           /\ IndexLines(i)[1].front_text = "  ["
           /\ IndexLines(i)[1].end_text = "],"

\* the indices written for the Polygon at position i, as a set
PathSet(i) == { EmittedPath(i)[k] : k \in 1..Len(EmittedPath(i)) }

(* C26: in one render the k-th index written in the path of the contour at *)
(* position i is the place, in the written points array, of the k-th point *)
(* of that contour, for every i and k; a Polygon held at several positions *)
(* is written once per position, each with its own index range.            *)
C26_PathPointsOwn ==
    Written =>
        /\ \A i \in 1..Len(polygons) :
               /\ Len(EmittedPath(i)) = ContourLen(i)
               /\ \A k \in 1..ContourLen(i) :
                      /\ EmittedPath(i)[k] + 1 \in 1..Len(EmittedPoints)
                      /\ EmittedPoints[EmittedPath(i)[k] + 1] = ContourTexts(i)[k]
                      /\ EmittedPath(i)[k] = LenBefore(i) + k - 1
        /\ \A i \in 1..Len(polygons) : \A j \in 1..Len(polygons) :
               i /= j => PathSet(i) \cap PathSet(j) = {}

C26_Witness ==
    /\ Written
    /\ polygons = <<1, 2, 1>>
    /\ ContourLen(1) = 2
    /\ ContourLen(2) > indices_slice_size
    /\ EmittedPath(3) = Range(ContourLen(1) + ContourLen(2), 2)
    /\ EmittedPoints[EmittedPath(3)[2] + 1] = PointText(points[1][2])
    /\ EmittedPoints[EmittedPath(3)[2] + 1] /= EmittedPoints[EmittedPath(2)[2] + 1]

-----------------------------------------------------------------------------
\* the calls on the ScadPolygon object that add to it
SetAdders == {"ScadPolygon.append", "ScadPolygon.extend"}

(* C27: the ScadPolygon constructor copies the caller's list: whatever the *)
(* caller then adds to or removes from its list, the ScadPolygon holds the *)
(* references it was constructed with, then the ones its append and extend *)
(* calls added; append and extend leave the caller's list as it was; the   *)
(* Polygon objects are shared by reference: a point appended to a Polygon  *)
(* object is in the Polygon the ScadPolygon holds.                         *)
C27_CopiesList ==
    self_polygons /= "none" =>
        /\ PolygonsOf = kept.given \o kept.added
        /\ last.op \in SetAdders => polygon_lists["caller"] = last.before
        /\ last.op = "Polygon.point_append" =>
               \A i \in 1..Len(PolygonsOf) :
                   PolygonsOf[i] = last.args.self =>
                       PointsOf(PolygonsOf[i]) = Append(last.before, last.args.point)

C27_Witness ==
    /\ self_polygons /= "none"
    /\ kept.given = <<"a", "b">>
    /\ kept.added = <<"b">>
    /\ polygon_lists["caller"] = <<"b", "a">>
    /\ PolygonsOf = <<"a", "b", "b">>
    /\ last.op = "Polygon.point_append"
    /\ last.args.self = "a"
    /\ PointsOf(PolygonsOf[1]) = <<1>>

(* C29: in the ScadPolygon base_scad_polygon_generate returns the outline   *)
(* "Romi Base Exterior" is at position 0 and nowhere else, the contours    *)
(* after it are the holes, slots and rectangles; written, its path is the  *)
(* first path, with the indices 0, 1, ... of its points, which are the     *)
(* first points of the points array.                                       *)
RomiMade == polygons /= <<>> /\ scad_name = "Romi Base ScadPolygon"
OutlinePoints == base_outline_polygon_get_value(FALSE).polygon.points
\* the lines a section holds between its first "// Polygon" comment line and
\* its second one
FirstGroup(section) ==
    LET stops == { j \in 2..Len(section) : section[j].kind = "polygon" }
        stop == IF stops = {} THEN Len(section) + 1
                ELSE CHOOSE j \in stops : \A k \in stops : j <= k
    IN  SubSeq(section, 2, stop - 1)
\* the indices of the first path, and the points written before those of
\* the second Polygon
FirstPath == IndexTexts(FirstGroup(PathsSection(scad_lines)))
FirstPoints == PointTexts(FirstGroup(PointsSection(scad_lines)))
C29_OutlineFirst ==
    RomiMade =>
        /\ PolygonName(polygons[1]) = "Romi Base Exterior"
        /\ points[polygons[1]] = OutlinePoints
        /\ \A i \in 2..Len(polygons) :
               /\ PolygonName(polygons[i]) /= "Romi Base Exterior"
               /\ ContourLen(i) \in {4, 8, 16}
        /\ Written =>
               LET paths == PathsSection(scad_lines)
                   array == PointsSection(scad_lines)
               IN  /\ paths[1].kind = "polygon"
                   /\ paths[1].name = "Romi Base Exterior"
                   /\ paths[1].first = 0
                   /\ array[1].kind = "polygon"
                   /\ array[1].name = "Romi Base Exterior"
                   /\ FirstPath = Range(0, Len(OutlinePoints))
                   /\ FirstPoints =
                          [k \in 1..Len(OutlinePoints) |-> PointText(OutlinePoints[k])]

C29_Witness ==
    /\ RomiMade
    /\ Written
    /\ Len(polygons) > 100
    /\ Len(FirstPath) = 46
    /\ FirstPath[46] = 45
    /\ last.op = "file_write"

(* C28: the outline base_outline_polygon_get returns has 2*21 + 4 = 46      *)
(* points: 21 points of the upper arc on the circle of the base, the two   *)
(* corners of the left wheel well, 21 points of the lower arc, the two     *)
(* corners of the right wheel well, in that order; the call never raises,  *)
(* with the assert statements executed or not.                             *)
C28_OutlineLength ==
    last.op = "base_outline_polygon_get" =>
        /\ last.raised = ""
        /\ Len(last.value) = 1
        /\ LET outline == last.value[1].points
               origin == P(0, 0)
               radius == RoundDiv(Mm(163), 2)
               half_dx == RoundDiv(Mm(125), 2)
               half_dy == RoundDiv(Mm(72), 2)
           IN  /\ Len(outline) = 2 * 21 + 4
               /\ \A k \in 1..21 : OnCircle(outline[k], origin, radius)
               /\ \A k \in 1..21 : outline[k].y > half_dy
               /\ outline[22] = P(-half_dx, half_dy)
               /\ outline[23] = P(-half_dx, -half_dy)
               /\ \A k \in 24..44 : OnCircle(outline[k], origin, radius)
               /\ \A k \in 24..44 : outline[k].y < -half_dy
               /\ outline[45] = P(half_dx, -half_dy)
               /\ outline[46] = P(half_dx, half_dy)

C28_Witness ==
    /\ last.op = "base_outline_polygon_get"
    /\ last.args.debug
    /\ last.raised = ""
    /\ Len(last.value[1].points) = 46
    /\ last.value[1].name = "Romi Base Exterior"

(* C30: battery_polygons_get returns the 17 holes of the lower group, then  *)
(* the holes of the upper group, 3 rows by 9 columns, 27 holes; each hole  *)
(* is a circle of 8 points.                                                *)
UpperBatteryHoles == SubSeq(last.value, 17 + 1, Len(last.value))
C30_UpperBatteryHoles ==
    last.op = "battery_polygons_get" =>
        /\ Len(last.value) >= 17
        /\ Len(UpperBatteryHoles) = 3 * 9
        /\ \A i \in 1..Len(last.value) : Len(last.value[i].points) = 8

====
